---- MODULE Spec2Model ----
(***************************************************************************)
(* Model of liboptimizexx: the composite parameter space (Grid / Node),    *)
(* the iteration states and mementos, the six iterator strategies, the     *)
(* advance / distance utilities and the worker pool of GridSearch::execute.*)
(*                                                                         *)
(* A component is a number; 0 is the root Grid the iterators are created   *)
(* on.  A std::list iterator into the children of a Grid is a pair         *)
(* (owner, pos): pos = 1 is begin()/rbegin(), pos = Len + 1 is end()/rend().*)
(* The deque MstateStack is a sequence: index 1 is front(), Len is back(). *)
(***************************************************************************)
EXTENDS Integers, Sequences, FiniteSets, TLC

(* ------------------------------ bounds --------------------------------- *)
\* number of components below the root
MaxComp == 3
\* cap on the number of frames next() may pile up in a behaviour
MaxStack == 4
\* largest n handed to advance()
MaxAdvance == 3
\* number of leaves of the flat grid GridSearch::execute works on
NumLeaves == 3
\* largest number of worker threads of the pool
NumWorkers == 2

\* largest number of samples of one parameter handed to buildGrid
MaxSamples == 3

\* largest number of components, besides the first Grid, that add, remove
\* and accept are followed on
MaxTree == 2

\* largest number of children all Grids hold together
MaxLinks == 3

\* largest number of components, besides the first Grid, that calls through
\* a GridComponent pointer are followed on
MaxCalled == 1

\* largest number of parameters handed to an algorithm or a builder
MaxDim == 2

Root == 0
\* the value read through an invalid iterator or reference
Undef == -1
\* iterations after which a loop over the (finite) tree is known to cycle
LoopFuel == 4 * (MaxComp + 2)

IterTypes == {"ForwardIter", "ForwardNodeIter", "ForwardGridIter",
              "ReverseIter", "ReverseNodeIter", "ReverseGridIter"}
IterModes == {"PreOrder", "PostOrder"}

VARIABLES
  nComp,      \* components 0 .. nComp exist
  kind,       \* getComponentType() of every component
  Mchildren,  \* Grid::Mchildren of every component (<<>> for a Node)
  it,         \* the iterator under test
  last,       \* the second iterator handed to distance()
  reported,   \* currentItem() after first() and after every next() since
  trav,       \* TRUE while reported is the run first(); next(); next(); ...
  op,         \* the last operation applied to it
  arg,        \* the operation before it, the position before it, its argument
  ret,        \* its return value (distance)
  lastop,     \* the last operation applied to last
  pcMain,     \* where the thread calling GridSearch::execute is
  MnumThreads,\* GridSearch::MnumThreads
  Mactive,    \* ThreadPool::Mactive
  Mqueue,     \* Fifo::Mqueue
  MnumPopped, \* Fifo::MnumPopped
  num_tasks,  \* the local num_tasks of execute
  wk,         \* the worker threads: position, comp_ptr, pending interrupt
  Mcomputed,  \* the components whose visitor call has set computed
  MresultData,\* Node::MresultData of every component (Undef: never set)
  submitted,  \* the components handed to ThreadPool::addTask, in order
  called,     \* per component, the number of visitor calls that have returned
  strat,      \* per Iterator value, its strategy (the stack is in heap)
  mem,        \* per Iterator value, the memento its MiterMemento points to
  heap,       \* MstateStack of every memento that is allocated
  cop,        \* the last operation on the Iterator values and its target
  Mcoordinates, \* Node::Mcoordinates of every component a builder made
  Mparent,    \* GridComponent::Mparent of every component (Undef: none)
  deleted,    \* the components delete was called on
  visited,    \* the components the visitor of accept() was called on, in order
  tlast,      \* the last operation on the composite: st is "ok" if it
              \* was defined, "ub" if it executed undefined behaviour
  param,      \* the Parameter object constructed last
  Mparameters \* GlobalAlgorithm::Mparameters

travvars == <<last, reported, trav, op, arg, ret, lastop>>
poolvars == <<pcMain, MnumThreads, Mactive, Mqueue, MnumPopped, num_tasks, wk,
              Mcomputed, MresultData, submitted, called>>
copyvars == <<strat, mem, heap, cop>>
compvars == <<Mcoordinates, Mparent, deleted, visited, tlast>>
buildvars == <<param, Mparameters>>
vars == <<nComp, kind, Mchildren, it, travvars, poolvars, copyvars, compvars, buildvars>>

(* --------------------------- the composite ----------------------------- *)
Live == 0 .. nComp

\* all children sequences for a parent vector p (children in index order)
RECURSIVE ChildSeq(_, _, _, _)
ChildSeq(p, n, g, i) ==
  IF i > n THEN <<>>
  ELSE (IF p[i] = g THEN <<i>> ELSE <<>>) \o ChildSeq(p, n, g, i + 1)

\* the trees Grid::add can build: every component but the root has one
\* parent of smaller index, and only a Grid has children
ParentVecs(n) == { p \in [1 .. n -> 0 .. n] : \A i \in 1 .. n : p[i] < i }
KindVecs(n, p) ==
  { k \in [0 .. n -> {"Composite", "Leaf"}] :
      /\ k[Root] = "Composite"
      /\ \A i \in 1 .. n : k[p[i]] = "Composite" }

getComponentType(c) == kind[c]

RECURSIVE Descendants(_)
Descendants(g) ==
  LET ch == { Mchildren[g][i] : i \in 1 .. Len(Mchildren[g]) }
  IN  ch \cup UNION { Descendants(c) : c \in ch }

(* ------------------------- IterationState ------------------------------ *)
\* ForwardIterationState(begin(), end()) / ReverseIterationState(rbegin(), rend())
ForwardIterationState(owner) == [owner |-> owner, pos |-> 1, rev |-> FALSE]
ReverseIterationState(owner) == [owner |-> owner, pos |-> 1, rev |-> TRUE]

isEnd(f) == f.pos = Len(Mchildren[f.owner]) + 1
\* Miter == --tmp(Mend_iter)
isBack(f) == f.pos = Len(Mchildren[f.owner])
stateNext(f) == [f EXCEPT !.pos = @ + 1]

\* the component *getIterator() refers to (f not at its end marker)
getIterator(f) ==
  IF f.rev THEN Mchildren[f.owner][Len(Mchildren[f.owner]) - f.pos + 1]
  ELSE Mchildren[f.owner][f.pos]

(* ------------------------- IterationMemento ---------------------------- *)
PostPushState(stack, f) == <<f>> \o stack
PrePushState(stack, f) == Append(stack, f)
pushState(mode, stack, f) ==
  IF mode = "PreOrder" THEN PrePushState(stack, f) ELSE PostPushState(stack, f)

popState(stack) == SubSeq(stack, 1, Len(stack) - 1)
mementoNext(stack) == [stack EXCEPT ![Len(stack)] = stateNext(@)]
iterationStateIsEnd(stack) == isEnd(stack[Len(stack)])
iterationIsBack(stack) == Len(stack) = 1 /\ isBack(stack[Len(stack)])
empty(stack) == stack = <<>>
reset(stack) == <<>>
\* MstateStack.back()->getIterator() can be dereferenced
Derefable(stack) == ~empty(stack) /\ ~iterationStateIsEnd(stack)
getCurrentIterator(stack) == getIterator(stack[Len(stack)])

(* ------------------------ iterator strategies -------------------------- *)
\* A strategy object.  st = "ok" while its behaviour is defined; the pure
\* operators below return st = "ub" where the code executes undefined
\* behaviour and st = "hang" where a loop of the code never ends; dangling
\* records that a ReverseIterationState was read through the reference its
\* getIterator() returns to a temporary.
NewStrategy(type, mode) ==
  [type |-> type, mode |-> mode, MstateStack |-> <<>>, MisDone |-> FALSE,
   st |-> "ok", dangling |-> FALSE, g |-> Undef]

\* kinds a caller can pass that the factory has no branch for
OtherKinds == {"NullIter", "Unknown"}

\* a factory whose last branch builds a ForwardIterator
makeIteratorStrategy_forward(type, mode) ==
  IF type \in IterTypes THEN NewStrategy(type, mode)
  ELSE NewStrategy("ForwardIter", mode)

\* IteratorStrategyFactory::makeIteratorStrategy
makeIteratorStrategy(type, mode) ==
  IF type \in IterTypes THEN NewStrategy(type, mode)
  ELSE NewStrategy("NullIter", mode)

\* Grid::createIterator / GridComponent::createIterator (the one a Node has)
createIterator(c, type, mode) ==
  IF getComponentType(c) = "Composite" THEN makeIteratorStrategy(type, mode)
  ELSE makeIteratorStrategy("NullIter", mode)

NullIterator_isDone == TRUE
isDone(i) == IF i.type = "NullIter" THEN NullIterator_isDone ELSE i.MisDone

\* Iterator::isDone: the facade forwards to the strategy it owns
Iterator_isDone(i) == isDone(i)

IsReverse(type) == type \in {"ReverseIter", "ReverseNodeIter", "ReverseGridIter"}
Top(i) == i.MstateStack[Len(i.MstateStack)]
UB(i) == [i EXCEPT !.st = "ub"]
Hang(i) == [i EXCEPT !.st = "hang"]
\* *MiterMemento->getCurrentIterator() was evaluated
Read(i) == [i EXCEPT !.dangling = @ \/ Top(i).rev]

\* MiterMemento->next(): ++ on the position of the active frame
AdvanceTop(i) ==
  IF empty(i.MstateStack) \/ iterationStateIsEnd(i.MstateStack) THEN UB(i)
  ELSE [i EXCEPT !.MstateStack = mementoNext(@)]

\* while (!empty() && iterationStateIsEnd()) { popState(); if (!empty()) next(); }
RECURSIVE PopLoop(_)
PopLoop(i) ==
  IF i.st # "ok" THEN i
  ELSE IF ~empty(i.MstateStack) /\ iterationStateIsEnd(i.MstateStack)
  THEN LET p == [i EXCEPT !.MstateStack = popState(@)]
       IN  IF ~empty(p.MstateStack) THEN PopLoop(AdvanceTop(p)) ELSE p
  ELSE i

\* the frame next() pushes for the subtree of c
NextFrame(type, c) ==
  IF IsReverse(type) THEN ReverseIterationState(c) ELSE ForwardIterationState(c)

\* ForwardIterator::next / ReverseIterator::next, and the first half of the
\* next() of the four filtering strategies
StepNext(i) ==
  IF ~Derefable(i.MstateStack) THEN UB(i)
  ELSE LET c == getCurrentIterator(i.MstateStack)
           d == Read(i)
       IN  IF ~Iterator_isDone(createIterator(c, i.type, i.mode))
           THEN [d EXCEPT !.MstateStack =
                            pushState(i.mode, @, NextFrame(i.type, c))]
           ELSE LET r == PopLoop(AdvanceTop(d))
                IN  IF r.st = "ok" /\ empty(r.MstateStack)
                    THEN [r EXCEPT !.MisDone = TRUE] ELSE r

\* while (!MisDone && currentItem->getComponentType() != want) MiterMemento->next();
RECURSIVE SkipLoop(_, _)
SkipLoop(i, want) ==
  IF i.st # "ok" \/ i.MisDone THEN i
  ELSE IF ~Derefable(i.MstateStack) THEN UB(i)
  ELSE IF getComponentType(getCurrentIterator(i.MstateStack)) # want
       THEN SkipLoop(AdvanceTop(Read(i)), want)
       ELSE Read(i)

Wanted(type) ==
  IF type \in {"ForwardNodeIter", "ReverseNodeIter"} THEN "Leaf" ELSE "Composite"

next(i) ==
  IF i.type \in {"ForwardIter", "ReverseIter"} THEN StepNext(i)
  ELSE SkipLoop(StepNext(i), Wanted(i.type))

\* reset(); if (begin() != end()) { MisDone = false; pushState(...) } else MisDone = true
FirstPush(i) ==
  IF Mchildren[Root] # <<>>
  THEN [i EXCEPT !.MisDone = FALSE,
                 !.MstateStack = pushState(i.mode, reset(@), NextFrame(i.type, Root))]
  ELSE [i EXCEPT !.MisDone = TRUE, !.MstateStack = reset(@)]

\* ForwardNodeIterator::first / ReverseNodeIterator::first:
\* while (!MisDone && currentItem is not a Leaf) next();
RECURSIVE FirstLeafLoop(_, _)
FirstLeafLoop(i, k) ==
  IF i.st # "ok" \/ i.MisDone THEN i
  ELSE IF k = 0 THEN Hang(i)
  ELSE IF ~Derefable(i.MstateStack) THEN UB(i)
  ELSE IF getComponentType(getCurrentIterator(i.MstateStack)) # "Leaf"
       THEN FirstLeafLoop(next(Read(i)), k - 1)
       ELSE Read(i)

first(i) ==
  LET p == FirstPush(i)
  IN  IF i.type \in {"ForwardIter", "ReverseIter"} THEN p
      ELSE IF i.type \in {"ForwardNodeIter", "ReverseNodeIter"}
           THEN FirstLeafLoop(p, LoopFuel)
           ELSE IF p.MisDone THEN p ELSE next(p)

\* currentItem(), where it is defined
currentItem(i) == getCurrentIterator(i.MstateStack)

(* ------------------------------ back() --------------------------------- *)
\* while (!iterationIsBack() && iterationStateIsEnd())
\*   { popState(); if (!iterationIsBack()) next(); }
RECURSIVE BackPopLoop(_)
BackPopLoop(i) ==
  IF i.st # "ok" THEN i
  ELSE IF iterationIsBack(i.MstateStack) THEN i
  ELSE IF empty(i.MstateStack) THEN UB(i)
  ELSE IF iterationStateIsEnd(i.MstateStack)
       THEN LET p == [i EXCEPT !.MstateStack = popState(@)]
            IN  IF iterationIsBack(p.MstateStack) THEN p
                ELSE BackPopLoop(AdvanceTop(p))
       ELSE i

\* the while (true) loop of ForwardIterator::back and ReverseIterator::back;
\* both push a ForwardIterationState for the subtree
RECURSIVE BackLoop(_, _)
BackLoop(i, k) ==
  IF i.st # "ok" THEN i
  ELSE IF k = 0 THEN Hang(i)
  ELSE IF ~Derefable(i.MstateStack) THEN UB(i)
  ELSE LET c == getCurrentIterator(i.MstateStack)
           d == Read(i)
       IN  IF ~Iterator_isDone(createIterator(c, i.type, i.mode))
           THEN BackLoop([d EXCEPT !.MstateStack =
                            pushState(i.mode, @, ForwardIterationState(c))],
                         k - 1)
           ELSE LET r == BackPopLoop(AdvanceTop(d))
                IN  IF r.st = "ok" /\ ~iterationIsBack(r.MstateStack)
                    THEN BackLoop(r, k - 1) ELSE r

\* the strategy of the opposite direction that the filtering back() probes
Opposite(type) ==
  CASE type = "ForwardNodeIter" -> "ReverseNodeIter"
    [] type = "ForwardGridIter" -> "ReverseGridIter"
    [] type = "ReverseNodeIter" -> "ForwardNodeIter"
    [] type = "ReverseGridIter" -> "ForwardGridIter"

\* while (!MisDone && rev_iter.currentItem() != currentItem()) next();
\* target is the probe after its first(); its currentItem() is read each time
RECURSIVE SeekLoop(_, _, _)
SeekLoop(i, target, k) ==
  IF i.st # "ok" \/ i.MisDone THEN i
  ELSE IF k = 0 THEN Hang(i)
  ELSE IF ~Derefable(target.MstateStack) \/ ~Derefable(i.MstateStack) THEN UB(i)
  ELSE LET d == [Read(i) EXCEPT !.dangling = @ \/ Top(target).rev]
       IN  IF currentItem(target) # currentItem(i)
           THEN SeekLoop(next(d), target, k - 1) ELSE d

back(i) ==
  LET f == first(i)
  IN  IF f.st # "ok" THEN f
      ELSE IF i.type \in {"ForwardIter", "ReverseIter"}
      THEN IF f.MisDone THEN f ELSE BackLoop(f, LoopFuel)
      ELSE LET probe == first(makeIteratorStrategy(Opposite(i.type), i.mode))
           IN  IF probe.st # "ok" THEN [f EXCEPT !.st = probe.st]
               ELSE SeekLoop([f EXCEPT !.dangling = @ \/ probe.dangling],
                             probe, LoopFuel)

(* ------------------------ advance / distance --------------------------- *)
\* while (n > 0 && !iter.isDone()) { iter.next(); --n; }
RECURSIVE advance(_, _)
advance(i, n) ==
  IF i.st = "ok" /\ n > 0 /\ ~isDone(i) THEN advance(next(i), n - 1) ELSE i

\* the std::list position MiterMemento->getCurrentIterator() yields: a child
\* of the owner, or the owner's end()
Position(f) ==
  <<f.owner, IF f.rev THEN Len(Mchildren[f.owner]) - f.pos + 1 ELSE f.pos>>
\* both getCurrentIterator() calls are defined: MstateStack.back() exists and
\* a ReverseIterationState is not asked for --begin()
Comparable(a, b) ==
  /\ ~empty(a.MstateStack) /\ ~empty(b.MstateStack)
  /\ Top(a).rev => ~isEnd(Top(a))
  /\ Top(b).rev => ~isEnd(Top(b))
\* Iterator::operator!=: the current-position markers of the active frames
\* differ
Differ(a, b) == Position(Top(a)) # Position(Top(b))

\* the value of i != l; where a getCurrentIterator() call is undefined, or
\* returns the reference of a ReverseIterationState to its temporary, the
\* comparison yields u, a value the caller cannot rely on
NotEqual(i, l, u) ==
  IF Comparable(i, l) /\ ~Top(i).rev /\ ~Top(l).rev THEN Differ(i, l) ELSE u

\* i after i != l was evaluated: getIterator() of both active frames was
\* read, or back() of an empty deque was
Compared(i, l) ==
  IF Comparable(i, l)
  THEN [i EXCEPT !.dangling = @ \/ Top(i).rev \/ Top(l).rev]
  ELSE [i EXCEPT !.dangling = TRUE]

\* while (iter != iter_last && !iter.isDone()) { ++retval; iter.next(); }
RECURSIVE DistLoop1(_, _, _, _, _)
DistLoop1(i, l, n, u, k) ==
  IF i.st # "ok" THEN [iter |-> i, retval |-> n]
  ELSE IF k = 0 THEN [iter |-> Hang(i), retval |-> n]
  ELSE IF NotEqual(i, l, u) /\ ~isDone(i)
       THEN DistLoop1(next(Compared(i, l)), l, n + 1, u, k - 1)
       ELSE [iter |-> Compared(i, l), retval |-> n]

\* while (iter != iter_last) { ++retval; iter.next(); }
RECURSIVE DistLoop2(_, _, _, _, _)
DistLoop2(i, l, n, u, k) ==
  IF i.st # "ok" THEN [iter |-> i, retval |-> n]
  ELSE IF k = 0 THEN [iter |-> Hang(i), retval |-> n]
  ELSE IF NotEqual(i, l, u)
       THEN DistLoop2(next(Compared(i, l)), l, n + 1, u, k - 1)
       ELSE [iter |-> Compared(i, l), retval |-> n]

\* u: what an undefined iter != iter_last happens to yield
distance(iter_first, iter_last, u) ==
  LET a == DistLoop1(iter_first, iter_last, 0, u, LoopFuel)
  IN  IF a.iter.st # "ok" THEN a
      ELSE IF NotEqual(a.iter, iter_last, u)
           THEN DistLoop2(first(Compared(a.iter, iter_last)), iter_last, 0, u,
                          LoopFuel)
           ELSE a

(* ---------------------- undefined behaviour --------------------------- *)
\* What a call that executed undefined behaviour can leave behind: the
\* process is gone, or the call came back with the iterator referring to an
\* arbitrary component or to no component at all.
Settled(r, st, g) ==
  [r EXCEPT !.st = st, !.g = g, !.MstateStack = <<>>, !.dangling = FALSE]
UBOutcomes(r) ==
  {Settled(r, "crashed", Undef)} \cup
  {Settled(r, "garbage", g) : g \in Live \cup {Undef}}
Clean(r) == [r EXCEPT !.dangling = FALSE]
\* the iterators a call returning r can leave behind
Resolve(r) ==
  IF r.st = "ub" THEN UBOutcomes(r)
  ELSE IF r.st = "hang" THEN {Settled(r, "hang", Undef)}
  ELSE IF r.dangling THEN {Clean(r)} \cup UBOutcomes(r)
  ELSE {Clean(r)}

\* what the caller reads from currentItem() after a call, if it is not done
Log(r) ==
  IF r.st = "garbage" THEN <<r.g>>
  ELSE IF r.st = "ok" /\ ~isDone(r)
       THEN <<IF Derefable(r.MstateStack) THEN currentItem(r) ELSE Undef>>
       ELSE <<>>

(* ------------------------- the traversal spec -------------------------- *)
\* no builder has run and no composite operation is being followed
NoComp ==
  /\ Mcoordinates = <<>>
  /\ Mparent = <<>>
  /\ deleted = {}
  /\ visited = <<>>
  /\ tlast = [name |-> "none"]

\* no Parameter was constructed and none handed to an algorithm
NoBuild ==
  /\ param = [cls |-> "none"]
  /\ Mparameters = <<>>

\* no Iterator value is being copied
NoCopy ==
  /\ strat = <<>>
  /\ mem = <<>>
  /\ heap = <<>>
  /\ cop = [name |-> "none", who |-> "none"]

\* no GridSearch::execute is running
NoPool ==
  /\ pcMain = "idle"
  /\ MnumThreads = 0
  /\ Mactive = FALSE
  /\ Mqueue = <<>>
  /\ MnumPopped = 0
  /\ num_tasks = 0
  /\ wk = <<>>
  /\ Mcomputed = {}
  /\ MresultData = [c \in Live |-> Undef]
  /\ submitted = <<>>
  /\ called = [c \in Live |-> 0]

Init ==
  /\ \E n \in 0 .. MaxComp : \E p \in ParentVecs(n) : \E k \in KindVecs(n, p) :
       /\ nComp = n
       /\ kind = k
       /\ Mchildren = [c \in 0 .. n |-> ChildSeq(p, n, c, 1)]
  /\ \E type \in IterTypes, mode \in IterModes :
       /\ it = createIterator(Root, type, mode)
       /\ last = createIterator(Root, type, mode)
  /\ reported = <<>>
  /\ trav = FALSE
  /\ op = "new"
  /\ arg = [prev |-> "new", pos |-> 0, n |-> 0, done |-> FALSE]
  /\ ret = 0
  /\ lastop = "new"
  /\ NoPool
  /\ NoCopy
  /\ NoBuild
  /\ NoComp

Tree == <<nComp, kind, Mchildren>>
Usable == it.st = "ok" /\ Len(it.MstateStack) < MaxStack

\* it.first()
First ==
  /\ Usable
  /\ \E r \in Resolve(first(it)) :
       /\ it' = r
       /\ reported' = Log(r)
  /\ trav' = TRUE
  /\ op' = "first"
  /\ arg' = [prev |-> op, pos |-> 0, n |-> 0, done |-> isDone(it)]
  /\ ret' = 0
  /\ UNCHANGED <<Tree, copyvars, compvars, buildvars, last, lastop, poolvars>>

\* it.next(), called as the loops of the library call it: positioned, not done
Next_ ==
  /\ Usable
  /\ op # "new"
  /\ ~isDone(it)
  /\ \E r \in Resolve(next(it)) :
       /\ it' = r
       /\ reported' = reported \o Log(r)
  /\ op' = "next"
  /\ arg' = [prev |-> op, pos |-> Len(reported), n |-> 0,
             done |-> isDone(it)]
  /\ ret' = 0
  /\ UNCHANGED <<Tree, copyvars, compvars, buildvars, last, trav, lastop, poolvars>>

\* it.back()
Back ==
  /\ Usable
  /\ \E r \in Resolve(back(it)) : it' = r
  /\ reported' = <<>>
  /\ trav' = FALSE
  /\ op' = "back"
  /\ arg' = [prev |-> op, pos |-> 0, n |-> 0, done |-> isDone(it)]
  /\ ret' = 0
  /\ UNCHANGED <<Tree, copyvars, compvars, buildvars, last, lastop, poolvars>>

\* advance(it, n) on an iterator a run first(); next(); ... has positioned
Advance ==
  /\ Usable
  /\ trav
  /\ \E n \in 0 .. MaxAdvance :
       /\ \E r \in Resolve(advance(it, n)) : it' = r
       /\ arg' = [prev |-> op, pos |-> Len(reported), n |-> n,
                    done |-> isDone(it)]
  /\ op' = "advance"
  /\ trav' = FALSE
  /\ ret' = 0
  /\ UNCHANGED <<Tree, copyvars, compvars, buildvars, last, reported, lastop, poolvars>>

\* last.back(), on the second iterator
BackLast ==
  /\ lastop = "new"
  /\ \E r \in Resolve(back(last)) : last' = r
  /\ lastop' = "back"
  /\ UNCHANGED <<Tree, copyvars, compvars, buildvars, it, reported, trav, op, arg, ret, poolvars>>

\* last.first(), on the second iterator
FirstLast ==
  /\ lastop = "new"
  /\ \E r \in Resolve(first(last)) : last' = r
  /\ lastop' = "first"
  /\ UNCHANGED <<Tree, copyvars, compvars, buildvars, it, reported, trav, op, arg, ret, poolvars>>

\* distance(it, last): it is passed by reference and is moved
Distance ==
  /\ Usable
  /\ op # "new"
  /\ lastop \in {"back", "first"}
  /\ last.st = "ok"
  /\ \E u \in BOOLEAN :
       LET d == distance(it, last, u)
       IN  /\ \E r \in Resolve(d.iter) : it' = r
           /\ ret' = d.retval
  /\ op' = "distance"
  /\ arg' = [prev |-> op, pos |-> Len(reported), n |-> 0,
             done |-> isDone(it)]
  /\ reported' = <<>>
  /\ trav' = FALSE
  /\ UNCHANGED <<Tree, copyvars, compvars, buildvars, last, lastop, poolvars>>

\* it == last, evaluated by the caller
Compare ==
  /\ Usable
  /\ op \notin {"new", "compare"}
  /\ lastop \in {"back", "first"}
  /\ last.st = "ok"
  /\ \E u \in BOOLEAN : ret' = IF NotEqual(it, last, u) THEN 0 ELSE 1
  /\ \E r \in Resolve(Compared(it, last)) : it' = r
  /\ op' = "compare"
  /\ arg' = [prev |-> op, pos |-> Len(reported), n |-> 0, done |-> isDone(it)]
  /\ trav' = FALSE
  /\ UNCHANGED <<Tree, copyvars, compvars, buildvars, last, reported, lastop, poolvars>>

Next ==
  First \/ Next_ \/ Back \/ Advance \/ BackLast \/ FirstLast \/ Distance \/ Compare

Spec == Init /\ [][Next]_vars

\* for (it.first(); !it.isDone(); it.next()): the loop every caller of the
\* library runs; once first() was called the loop goes on calling next()
\* while the iterator is not done
Traverse ==
  \/ op = "new" /\ First
  \/ Next_

SpecTraverse == Init /\ [][Traverse]_vars /\ WF_vars(Next_)

(* ------------------ GridSearch::execute and ThreadPool ------------------ *)
\* the coordinates StandardParameterSpaceBuilder::buildGrid gives the c-th
\* node of a grid of two parameters with three samples each (start 0, delta 1):
\* the first coordinate runs fastest
Coordinates(c) == <<(c - 1) % 3, (c - 1) \div 3>>
\* the visitor handed to execute: the sum of the coordinates
Sum(c) == Coordinates(c)[1] + Coordinates(c)[2]

\* v(comp_ptr) has returned: operator()(Node*) stores the result and marks the
\* node computed, operator()(Grid*) does nothing
Visit(c) ==
  /\ called' = [called EXCEPT ![c] = @ + 1]
  /\ IF getComponentType(c) = "Leaf"
     THEN /\ Mcomputed' = Mcomputed \cup {c}
          /\ MresultData' = [MresultData EXCEPT ![c] = Sum(c)]
     ELSE UNCHANGED <<Mcomputed, MresultData>>

FreshWorker == [pc |-> "loop", comp |-> Undef, intr |-> FALSE]
\* Mcondition.notify_one(): one of the threads blocked in wait(), if any
notify_one(workers) ==
  IF \E w \in DOMAIN workers : workers[w].pc = "wait"
  THEN { [workers EXCEPT ![w].pc = "lock"] :
           w \in { v \in DOMAIN workers : workers[v].pc = "wait" } }
  ELSE {workers}
\* Mworkers.interrupt_all(): a thread blocked in wait() leaves by
\* thread_interrupted, any other thread finds the request at its next wait()
interrupt_all(workers) ==
  [w \in DOMAIN workers |->
     IF workers[w].pc = "wait" THEN [workers[w] EXCEPT !.pc = "done"]
     ELSE [workers[w] EXCEPT !.intr = TRUE]]

\* GridSearch(builder, parameters, size_t num_threads=0): the thread count of
\* a GridSearch constructed without one
num_threads == 0

\* the flat grids buildGrid makes, the iterator execute creates on them
InitPool ==
  /\ \E n \in 0 .. NumLeaves :
       /\ nComp = n
       /\ kind = [c \in 0 .. n |-> IF c = Root THEN "Composite" ELSE "Leaf"]
       /\ Mchildren = [c \in 0 .. n |->
                         IF c = Root THEN [i \in 1 .. n |-> i] ELSE <<>>]
  /\ it = createIterator(Root, "ForwardNodeIter", "PostOrder")
  /\ last = it
  /\ reported = <<>>
  /\ trav = FALSE
  /\ op = "new"
  /\ arg = [prev |-> "new", pos |-> 0, n |-> 0, done |-> FALSE]
  /\ ret = 0
  /\ lastop = "new"
  /\ pcMain = "start"
  /\ MnumThreads \in 0 .. NumWorkers
  /\ Mactive = FALSE
  /\ Mqueue = <<>>
  /\ MnumPopped = 0
  /\ num_tasks = 0
  /\ wk = <<>>
  /\ Mcomputed = {}
  /\ MresultData = [c \in Live |-> Undef]
  /\ submitted = <<>>
  /\ called = [c \in Live |-> 0]
  /\ NoCopy
  /\ NoBuild
  /\ NoComp

\* where the for loop of execute stands once the iterator is r
LoopAt(r, body, after) ==
  IF r.st \in {"crashed", "hang"} THEN "crashed"
  ELSE IF Iterator_isDone(r) THEN after ELSE body

\* a loop of execute is followed for one round past undefined behaviour
Followed(i, r) == i.st = "garbage" => r.st = "crashed"

\* *iter, as the loops of execute read it: the component the active frame
\* stands on, or whatever an iterator left behind by undefined behaviour
\* refers to
Item(i) == IF i.st = "garbage" THEN i.g ELSE currentItem(i)

\* execute up to the first test of a loop: the serial branch for
\* 0 == MnumThreads, else new ThreadPool, initialize() and iter.first()
Execute ==
  /\ pcMain = "start"
  /\ \E r \in Resolve(first(it)) :
       /\ it' = r
       /\ IF 0 = MnumThreads
          THEN /\ pcMain' = LoopAt(r, "serial", "returned")
               /\ UNCHANGED <<Mactive, wk>>
          ELSE /\ pcMain' = LoopAt(r, "submit", "spin")
               /\ Mactive' = TRUE
               /\ wk' = [w \in 1 .. MnumThreads |-> FreshWorker]
  /\ UNCHANGED <<Tree, copyvars, compvars, buildvars, travvars, MnumThreads, Mqueue, MnumPopped, num_tasks,
                 Mcomputed, MresultData, submitted, called>>

\* one round of the serial loop: (*iter)->accept(v); ++iter
Serial ==
  /\ pcMain = "serial"
  /\ IF Item(it) \in Live
     THEN /\ Visit(Item(it))
          /\ \E r \in Resolve(next(it)) :
               /\ Followed(it, r)
               /\ it' = r
               /\ pcMain' = LoopAt(r, "serial", "returned")
     ELSE /\ pcMain' = "crashed"
          /\ UNCHANGED <<it, called, Mcomputed, MresultData>>
  /\ UNCHANGED <<Tree, copyvars, compvars, buildvars, travvars, MnumThreads, Mactive, Mqueue, MnumPopped,
                 num_tasks, wk, submitted>>

\* one round of the submitting loop: pool->addTask(*iter); ++num_tasks; ++iter
AddTask ==
  /\ pcMain = "submit"
  /\ Mqueue' = Append(Mqueue, Item(it))
  /\ submitted' = Append(submitted, Item(it))
  /\ wk' \in notify_one(wk)
  /\ num_tasks' = num_tasks + 1
  /\ \E r \in Resolve(next(it)) :
       /\ Followed(it, r)
       /\ it' = r
       /\ pcMain' = LoopAt(r, "submit", "spin")
  /\ UNCHANGED <<Tree, copyvars, compvars, buildvars, travvars, MnumThreads, Mactive, MnumPopped, Mcomputed,
                 MresultData, called>>

getNumPoppedTasks == MnumPopped
getCompletedTasksCount == getNumPoppedTasks

\* while (num_tasks != pool->getCompletedTasksCount()) { } has ended and
\* delete pool runs ~ThreadPool up to join_all()
DeletePool ==
  /\ pcMain = "spin"
  /\ num_tasks = getCompletedTasksCount
  /\ Mactive' = FALSE
  /\ wk' = interrupt_all(wk)
  /\ pcMain' = "join"
  /\ UNCHANGED <<Tree, copyvars, compvars, buildvars, it, travvars, MnumThreads, Mqueue, MnumPopped,
                 num_tasks, Mcomputed, MresultData, submitted, called>>

\* Mworkers.join_all() comes back, the pool is gone and execute returns
JoinAll ==
  /\ pcMain = "join"
  /\ \A w \in DOMAIN wk : wk[w].pc = "done"
  /\ pcMain' = "returned"
  /\ UNCHANGED <<Tree, copyvars, compvars, buildvars, it, travvars, MnumThreads, Mactive, Mqueue, MnumPopped,
                 num_tasks, wk, Mcomputed, MresultData, submitted, called>>

Running == pcMain \in {"submit", "spin", "join"}

\* what while (Mactive) can read: Mactive is a plain bool the destructor
\* writes without synchronisation while the workers read it
ReadActive == IF pcMain = "join" THEN {TRUE, FALSE} ELSE {Mactive}

\* ThreadHandle::operator(): the test of while (Mactive)
WLoop(w) ==
  /\ Running
  /\ wk[w].pc = "loop"
  /\ \E a \in ReadActive :
       wk' = [wk EXCEPT ![w].pc = IF a THEN "lock" ELSE "done"]
  /\ UNCHANGED <<Tree, copyvars, compvars, buildvars, it, travvars, pcMain, MnumThreads, Mactive, Mqueue,
                 MnumPopped, num_tasks, Mcomputed, MresultData, submitted,
                 called>>

\* Fifo::waitAndPopTask under Mmutex: wait() on an empty queue (where a
\* pending interruption ends the thread), else front(), pop(), ++MnumPopped
\* and the return of a reference to the element just popped
waitAndPopTask(w) ==
  /\ Running
  /\ wk[w].pc = "lock"
  /\ IF Mqueue = <<>>
     THEN /\ wk' = [wk EXCEPT ![w].pc = IF wk[w].intr THEN "done" ELSE "wait"]
          /\ UNCHANGED <<Mqueue, MnumPopped>>
     ELSE /\ wk' = [wk EXCEPT ![w].pc = "read", ![w].comp = Head(Mqueue)]
          /\ Mqueue' = Tail(Mqueue)
          /\ MnumPopped' = MnumPopped + 1
  /\ UNCHANGED <<Tree, copyvars, compvars, buildvars, it, travvars, pcMain, MnumThreads, Mactive, num_tasks,
                 Mcomputed, MresultData, submitted, called>>

\* comp_ptr = <the reference waitAndPopTask returned>: the element is popped
\* and the mutex released, so the read yields the task, another pointer, or
\* one the call through which ends the process
WRead(w) ==
  /\ Running
  /\ wk[w].pc = "read"
  /\ \/ /\ \E c \in Live : wk' = [wk EXCEPT ![w].pc = "visit", ![w].comp = c]
        /\ UNCHANGED pcMain
     \/ /\ wk' = [wk EXCEPT ![w].pc = "dead"]
        /\ pcMain' = "crashed"
  /\ UNCHANGED <<Tree, copyvars, compvars, buildvars, it, travvars, MnumThreads, Mactive, Mqueue, MnumPopped,
                 num_tasks, Mcomputed, MresultData, submitted, called>>

\* the visitor call on comp_ptr returns
WVisit(w) ==
  /\ Running
  /\ wk[w].pc = "visit"
  /\ Visit(wk[w].comp)
  /\ wk' = [wk EXCEPT ![w].pc = "loop"]
  /\ UNCHANGED <<Tree, copyvars, compvars, buildvars, it, travvars, pcMain, MnumThreads, Mactive, Mqueue,
                 MnumPopped, num_tasks, submitted>>

NextPool ==
  \/ Execute
  \/ Serial
  \/ AddTask
  \/ DeletePool
  \/ JoinAll
  \/ \E w \in DOMAIN wk : WLoop(w)
  \/ \E w \in DOMAIN wk : waitAndPopTask(w)
  \/ \E w \in DOMAIN wk : WRead(w)
  \/ \E w \in DOMAIN wk : WVisit(w)

SpecPool == InitPool /\ [][NextPool]_vars

\* the calling thread: every statement of execute returns and the next runs
MainStep == Execute \/ Serial \/ AddTask \/ DeletePool \/ JoinAll
\* thread w of Mworkers: the scheduler lets every thread run, a mutex that is
\* free is acquired, a visitor call returns
WorkerStep(w) ==
  /\ w \in DOMAIN wk
  /\ WLoop(w) \/ waitAndPopTask(w) \/ WRead(w) \/ WVisit(w)

SpecPoolFair ==
  /\ InitPool
  /\ [][NextPool]_vars
  /\ WF_vars(MainStep)
  /\ \A w \in 1 .. NumWorkers + 1 : WF_vars(WorkerStep(w))

\* execute on a parameter space that add has built: any tree
InitSubmit ==
  /\ \E n \in 0 .. MaxComp : \E p \in ParentVecs(n) : \E k \in KindVecs(n, p) :
       /\ nComp = n
       /\ kind = k
       /\ Mchildren = [c \in 0 .. n |-> ChildSeq(p, n, c, 1)]
  /\ it = createIterator(Root, "ForwardNodeIter", "PostOrder")
  /\ last = it
  /\ reported = <<>>
  /\ trav = FALSE
  /\ op = "new"
  /\ arg = [prev |-> "new", pos |-> 0, n |-> 0, done |-> FALSE]
  /\ ret = 0
  /\ lastop = "new"
  /\ pcMain = "start"
  /\ MnumThreads \in 0 .. 1
  /\ Mactive = FALSE
  /\ Mqueue = <<>>
  /\ MnumPopped = 0
  /\ num_tasks = 0
  /\ wk = <<>>
  /\ Mcomputed = {}
  /\ MresultData = [c \in Live |-> Undef]
  /\ submitted = <<>>
  /\ called = [c \in Live |-> 0]
  /\ NoCopy
  /\ NoBuild
  /\ NoComp

SpecSubmit == InitSubmit /\ [][NextPool]_vars

\* ThreadPool::initialize without its default of one thread
ThreadPool_initialize_none(numThreads, hardware_concurrency) ==
  IF 0 = numThreads THEN hardware_concurrency ELSE numThreads

\* ThreadPool::initialize, the number of threads it creates: MnumThreads as
\* constructed, boost::thread::hardware_concurrency() for 0, and 1 where
\* that is 0 too
ThreadPool_initialize(numThreads, hardware_concurrency) ==
  LET n == IF 0 = numThreads THEN hardware_concurrency ELSE numThreads
  IN  IF 0 = n THEN 1 ELSE n

\* a ThreadPool constructed with any worker count (0 is the default of the
\* constructor) by a caller that holds a flat grid and an iterator on it
InitThreads ==
  /\ \E n \in 0 .. NumLeaves :
       /\ nComp = n
       /\ kind = [c \in 0 .. n |-> IF c = Root THEN "Composite" ELSE "Leaf"]
       /\ Mchildren = [c \in 0 .. n |->
                         IF c = Root THEN [i \in 1 .. n |-> i] ELSE <<>>]
  /\ it = createIterator(Root, "ForwardNodeIter", "PostOrder")
  /\ last = it
  /\ reported = <<>>
  /\ trav = FALSE
  /\ op = "new"
  /\ arg = [prev |-> "new", pos |-> 0, n |-> 0, done |-> FALSE]
  /\ ret = 0
  /\ lastop = "new"
  /\ pcMain = "constructed"
  /\ MnumThreads \in 0 .. NumWorkers
  /\ Mactive = FALSE
  /\ Mqueue = <<>>
  /\ MnumPopped = 0
  /\ num_tasks = 0
  /\ wk = <<>>
  /\ Mcomputed = {}
  /\ MresultData = [c \in Live |-> Undef]
  /\ submitted = <<>>
  /\ called = [c \in Live |-> 0]
  /\ NoCopy
  /\ NoBuild
  /\ NoComp

\* pool->initialize() on a machine whose hardware_concurrency() is hw (0
\* where the library cannot tell), then the caller's iter.first() up to the
\* first test of its submitting loop
Initialize ==
  /\ pcMain = "constructed"
  /\ \E hw \in 0 .. NumWorkers :
       /\ MnumThreads' = ThreadPool_initialize(MnumThreads, hw)
       /\ tlast' = [name |-> "initialize", numThreads |-> MnumThreads,
                    hardware_concurrency |-> hw]
  /\ Mactive' = TRUE
  /\ wk' = [w \in 1 .. MnumThreads' |-> FreshWorker]
  /\ \E r \in Resolve(first(it)) :
       /\ it' = r
       /\ pcMain' = LoopAt(r, "submit", "spin")
  /\ UNCHANGED <<Tree, copyvars, buildvars, travvars, Mcoordinates, Mparent,
                 deleted, visited, Mqueue, MnumPopped, num_tasks, Mcomputed,
                 MresultData, submitted, called>>

NextThreads ==
  \/ Initialize
  \/ AddTask
  \/ DeletePool
  \/ JoinAll
  \/ \E w \in DOMAIN wk : WLoop(w)
  \/ \E w \in DOMAIN wk : waitAndPopTask(w)
  \/ \E w \in DOMAIN wk : WRead(w)
  \/ \E w \in DOMAIN wk : WVisit(w)

SpecThreads == InitThreads /\ [][NextThreads]_vars

(* ------------------------- MonteCarlo::execute -------------------------- *)
\* enum Edistribution
Edistribution == {"UniformInt", "Poisson", "Exponential", "Normal"}
\* percentages the constructor accepts (0 < percent <= 100); 5 is its default
Percentages == {5, 50, 100}

\* std::round(generator()) stored in an unsigned int: uniform_int(0,
\* num_elements) yields 0 .. num_elements; the Poisson, exponential and normal
\* distributions have no upper end (and the normal one yields negative
\* values, whose conversion is not defined), followed here up to MaxAdvance
Generated(distr, num_elements) ==
  IF distr = "UniformInt" THEN 0 .. num_elements ELSE 0 .. MaxAdvance

\* a MonteCarlo whose parameter space constructParameterSpace has built: a
\* flat grid of at least two Nodes, since every valid parameter has two
\* samples or more; arg holds Mdistribution and Mpercentage
InitMonte ==
  /\ \E n \in 2 .. NumLeaves :
       /\ nComp = n
       /\ kind = [c \in 0 .. n |-> IF c = Root THEN "Composite" ELSE "Leaf"]
       /\ Mchildren = [c \in 0 .. n |->
                         IF c = Root THEN [i \in 1 .. n |-> i] ELSE <<>>]
  /\ it = createIterator(Root, "ForwardNodeIter", "PostOrder")
  /\ last = it
  /\ \E d \in Edistribution, p \in Percentages :
       arg = [Mdistribution |-> d, Mpercentage |-> p]
  /\ reported = <<>>
  /\ trav = FALSE
  /\ op = "new"
  /\ ret = 0
  /\ lastop = "new"
  /\ pcMain = "start"
  /\ MnumThreads = 0
  /\ Mactive = FALSE
  /\ Mqueue = <<>>
  /\ MnumPopped = 0
  /\ num_tasks = 0
  /\ wk = <<>>
  /\ Mcomputed = {}
  /\ MresultData = [c \in Live |-> Undef]
  /\ submitted = <<>>
  /\ called = [c \in Live |-> 0]
  /\ NoCopy
  /\ NoBuild
  /\ NoComp

\* where execute stands with n indices still to sample
SampleAt(r, n) ==
  IF r.st \in {"crashed", "hang"} THEN "crashed"
  ELSE IF n = 0 THEN "returned" ELSE "sample"

\* execute up to its last loop: iter.first(); iter_last.back(); num_elements =
\* distance(iter, iter_last); indices((Mpercentage/100.)*num_elements), kept
\* in ret and num_tasks
MonteExecute ==
  /\ pcMain = "start"
  /\ \E f \in Resolve(first(it)), l \in Resolve(back(last)), u \in BOOLEAN :
       /\ last' = l
       /\ IF f.st # "ok" \/ l.st \in {"crashed", "hang"}
          THEN /\ it' = f
               /\ pcMain' = "crashed"
               /\ UNCHANGED <<ret, num_tasks>>
          ELSE LET d == distance(f, l, u)
               IN  /\ \E r \in Resolve(d.iter) :
                        /\ it' = r
                        /\ pcMain' = SampleAt(r, (arg.Mpercentage * d.retval) \div 100)
                   /\ ret' = d.retval
                   /\ num_tasks' = (arg.Mpercentage * d.retval) \div 100
  /\ UNCHANGED <<Tree, copyvars, compvars, buildvars, reported, trav, op, arg,
                 lastop, MnumThreads, Mactive, Mqueue, MnumPopped, wk,
                 Mcomputed, MresultData, submitted, called>>

\* one round of the last loop for the index idx: iter.first();
\* advance(iter, idx); (*iter)->accept(v).  *iter of an iterator that is
\* done, or that undefined behaviour left behind, ends the process or hands
\* accept some component
MonteSample ==
  /\ pcMain = "sample"
  /\ num_tasks' = num_tasks - 1
  /\ \E idx \in Generated(arg.Mdistribution, ret) :
     \E r \in Resolve(advance(first([it EXCEPT !.st = "ok", !.g = Undef]), idx)) :
       /\ it' = r
       /\ IF r.st = "ok" /\ ~isDone(r) /\ Derefable(r.MstateStack)
          THEN /\ Visit(currentItem(r))
               /\ tlast' = [name |-> "accept", index |-> idx,
                            on |-> currentItem(r), st |-> "ok"]
               /\ pcMain' = SampleAt(r, num_tasks - 1)
          ELSE \/ /\ pcMain' = "crashed"
                  /\ tlast' = [name |-> "accept", index |-> idx,
                               on |-> Undef, st |-> "ub"]
                  /\ UNCHANGED <<called, Mcomputed, MresultData>>
               \/ /\ r.st \in {"ok", "garbage"}
                  /\ \E g \in IF r.st = "garbage" THEN {r.g} \cap Live ELSE Live :
                       /\ Visit(g)
                       /\ tlast' = [name |-> "accept", index |-> idx,
                                    on |-> g, st |-> "ub"]
                  /\ pcMain' = SampleAt(r, num_tasks - 1)
  /\ UNCHANGED <<Tree, copyvars, buildvars, Mcoordinates, Mparent, deleted,
                 visited, last, reported, trav, op, arg, ret, lastop,
                 MnumThreads, Mactive, Mqueue, MnumPopped, wk, submitted>>

NextMonte == MonteExecute \/ MonteSample

SpecMonte == InitMonte /\ [][NextMonte]_vars

(* ------------------ what the traversals are meant to be ---------------- *)
\* the subtree of c in pre-order or in post-order
RECURSIVE Walk(_, _)
Walk(c, mode) ==
  LET ch == Mchildren[c]
      inner[i \in 0 .. Len(ch)] ==
        IF i = 0 THEN <<>> ELSE inner[i - 1] \o Walk(ch[i], mode)
  IN  IF mode = "PreOrder" THEN <<c>> \o inner[Len(ch)]
      ELSE inner[Len(ch)] \o <<c>>

Reverse(s) == [i \in 1 .. Len(s) |-> s[Len(s) - i + 1]]
IsLeaf(c) == kind[c] = "Leaf"
IsGrid(c) == kind[c] = "Composite"
BelowRoot(c) == c # Root

\* the components a traversal of the given kind and order is to surface,
\* in the order it is to surface them
Qualifying(type, mode) ==
  LET all == SelectSeq(Walk(Root, mode), BelowRoot)
      fwd == IF type \in {"ForwardNodeIter", "ReverseNodeIter"}
             THEN SelectSeq(all, IsLeaf)
             ELSE IF type \in {"ForwardGridIter", "ReverseGridIter"}
                  THEN SelectSeq(all, IsGrid)
                  ELSE all
  IN  IF IsReverse(type) THEN Reverse(fwd) ELSE fwd

Range(s) == { s[i] : i \in 1 .. Len(s) }
NoDup(s) == \A i, j \in 1 .. Len(s) : i # j => s[i] # s[j]
Before(s, i) == { s[j] : j \in 1 .. i - 1 }
WellBehaved == it.st = "ok"

\* the run first(); while (!isDone()) { currentItem(); next(); } of a fresh
\* strategy, as the operators above compute it
RECURSIVE RunFrom(_, _, _)
RunFrom(i, acc, k) ==
  IF i.st # "ok" THEN [seq |-> acc, st |-> i.st]
  ELSE IF isDone(i) THEN [seq |-> acc, st |-> "ok"]
  ELSE IF k = 0 THEN [seq |-> acc, st |-> "hang"]
  ELSE IF ~Derefable(i.MstateStack) THEN [seq |-> acc, st |-> "ub"]
  ELSE RunFrom(next(i), Append(acc, currentItem(i)), k - 1)
Run(type, mode) == RunFrom(first(NewStrategy(type, mode)), <<>>, LoopFuel)

(* ------------------- StandardParameterSpaceBuilder --------------------- *)
\* Coordinates are counted in units of 0.5, so that the ranges of the tests
\* ([0, 1] step 0.5 and [-1, 1] step 1) are integers.
Abs(x) == IF x < 0 THEN -x ELSE x
Ceil(a, b) == (a + b - 1) \div b
\* StandardParameter::getSamples: ceil(fabs(Mend - Mstart) / Mdelta) + 1
getSamples(p) == Ceil(Abs(p.end - p.start), p.delta) + 1
\* the samples of one parameter: val = start; push_back(val); val += delta
Component(p) == [s \in 1 .. getSamples(p) |-> p.start + (s - 1) * p.delta]

\* the parameters a caller may hand over: StandardParameter(id, start, end, delta)
Parameters(start) ==
  { p \in [start : {start}, end : start + 1 .. start + 2 * (MaxSamples - 1),
           delta : 1 .. 2] : getSamples(p) <= MaxSamples }

\* for (k = 1; k < components.size(); ++k) { ++iterators[k]; if (iterators[k]
\* != components[k].end()) break; iterators[k] = components[k].begin(); }
RECURSIVE Carry(_, _, _)
Carry(components, iterators, k) ==
  IF k > Len(components) THEN [done |-> TRUE, iterators |-> iterators]
  ELSE IF iterators[k] + 1 <= Len(components[k])
       THEN [done |-> FALSE, iterators |-> [iterators EXCEPT ![k] = @ + 1]]
       ELSE Carry(components, [iterators EXCEPT ![k] = 1], k + 1)

\* while (true) { while (iterators[0] != components[0].end()) { add(new
\* Node(coordinates)); ++iterators[0]; } iterators[0] = begin; ... }
RECURSIVE Combine(_, _, _)
Combine(components, iterators, nodes) ==
  LET row == [i \in 1 .. Len(components[1]) |->
                [d \in 1 .. Len(components) |->
                   IF d = 1 THEN components[1][i]
                   ELSE components[d][iterators[d]]]]
      c == Carry(components, iterators, 2)
  IN  IF c.done THEN nodes \o row
      ELSE Combine(components, c.iterators, nodes \o row)

\* a builder whose inner loop runs over the last parameter
buildGrid_lastFastest(parameters) ==
  LET c1 == Component(parameters[1])
      c2 == Component(parameters[2])
  IN  [k \in 1 .. Len(c1) * Len(c2) |->
         <<c1[((k - 1) \div Len(c2)) + 1], c2[((k - 1) % Len(c2)) + 1]>>]

\* StandardParameterSpaceBuilder::buildGrid: the coordinates of the Nodes, in
\* the order they are added to the parameter space
buildGrid(parameters) ==
  Combine([d \in 1 .. Len(parameters) |-> Component(parameters[d])],
          [d \in 1 .. Len(parameters) |-> 1], <<>>)

\* buildParameterSpace(); buildGrid(params); createIterator(ForwardNodeIter)
InitGrid ==
  /\ \E p1 \in Parameters(0), p2 \in Parameters(-2) :
       LET nodes == buildGrid(<<p1, p2>>)
           n == Len(nodes)
       IN  /\ nComp = n
           /\ kind = [c \in 0 .. n |-> IF c = Root THEN "Composite" ELSE "Leaf"]
           /\ Mchildren = [c \in 0 .. n |->
                             IF c = Root THEN [i \in 1 .. n |-> i] ELSE <<>>]
           /\ Mcoordinates = [c \in 0 .. n |->
                                IF c = Root THEN <<>> ELSE nodes[c]]
           /\ Mparent = [c \in 0 .. n |-> IF c = Root THEN Undef ELSE Root]
           /\ tlast = [name |-> "buildGrid", parameters |-> <<p1, p2>>]
  /\ deleted = {}
  /\ visited = <<>>
  /\ \E mode \in IterModes :
       it = createIterator(Root, "ForwardNodeIter", mode)
  /\ last = it
  /\ reported = <<>>
  /\ trav = FALSE
  /\ op = "new"
  /\ arg = [prev |-> "new", pos |-> 0, n |-> 0, done |-> FALSE]
  /\ ret = 0
  /\ lastop = "new"
  /\ NoPool
  /\ NoCopy
  /\ NoBuild

NextGrid == First \/ Next_

SpecGrid == InitGrid /\ [][NextGrid]_vars

(* ----------------- parameters, GlobalAlgorithm, builder ---------------- *)
\* the Parameter objects a caller may construct: StandardParameter(id, start,
\* end, delta) and DimensionlessParameter(id, samples).  The constructors
\* store their arguments and check nothing.
StandardParameters ==
  [cls : {"Standard"}, start : 0 .. 1, end : 0 .. MaxSamples,
   delta : 1 .. MaxSamples - 1]
DimensionlessParameters == [cls : {"Dimensionless"}, samples : 1 .. MaxSamples]
AllParameters ==
  { p \in StandardParameters :
      p.end >= p.start /\ p.end <= p.start + MaxSamples - 1 }
  \cup DimensionlessParameters

\* StandardParameter::isValid
StandardParameter_isValid(p) ==
  IF p.start = p.end THEN FALSE
  ELSE IF /\ (p.start > 0 /\ p.end > 0) \/ (p.start < 0 /\ p.end < 0)
          /\ p.delta > Abs(Abs(p.end) - Abs(p.start))
       THEN FALSE
       ELSE IF p.delta > Abs(p.end) + Abs(p.start) THEN FALSE ELSE TRUE

\* a DimensionlessParameter that accepts two samples
DimensionlessParameter_isValid_two(p) == p.samples > 1

\* DimensionlessParameter::isValid
DimensionlessParameter_isValid(p) == p.samples > 2

isValid(p) ==
  IF p.cls = "Standard" THEN StandardParameter_isValid(p)
  ELSE DimensionlessParameter_isValid(p)

\* getStart(), getEnd(), getDelta() of a parameter; those of a
\* DimensionlessParameter (0, 1, 1 / (Msamples - 1)) in units of its delta
Range3(p) ==
  IF p.cls = "Standard"
  THEN [start |-> p.start, end |-> p.end, delta |-> p.delta]
  ELSE [start |-> 0, end |-> p.samples - 1, delta |-> 1]

\* OPTIMIZE_assert(C, M): the call is left by an exception unless C holds
OPTIMIZE_assert(C) == IF C THEN "ok" ELSE "assert"

\* StandardParameterSpaceBuilder::buildGrid from its first statement: the
\* assertion on every parameter, then the loops that add the Nodes
StandardParameterSpaceBuilder_buildGrid(parameters) ==
  LET st == OPTIMIZE_assert(\A i \in 1 .. Len(parameters) : isValid(parameters[i]))
  IN  [st |-> st,
       nodes |-> IF st = "ok"
                 THEN buildGrid([d \in 1 .. Len(parameters) |-> Range3(parameters[d])])
                 ELSE <<>>]

\* a GridSearch made without parameters, its builder holding an empty Grid
InitBuild ==
  /\ nComp = 0
  /\ kind = [c \in {Root} |-> "Composite"]
  /\ Mchildren = [c \in {Root} |-> <<>>]
  /\ Mcoordinates = [c \in {Root} |-> <<>>]
  /\ Mparent = [c \in {Root} |-> Undef]
  /\ deleted = {}
  /\ visited = <<>>
  /\ tlast = [name |-> "GridSearch", st |-> "ok"]
  /\ param = [cls |-> "none"]
  /\ Mparameters = <<>>
  /\ it = NewStrategy("NullIter", "PostOrder")
  /\ last = it
  /\ reported = <<>>
  /\ trav = FALSE
  /\ op = "new"
  /\ arg = [prev |-> "new", pos |-> 0, n |-> 0, done |-> FALSE]
  /\ ret = 0
  /\ lastop = "new"
  /\ NoPool
  /\ NoCopy

BuildFrame ==
  <<it, travvars, poolvars, copyvars, deleted, visited>>
Space == <<nComp, kind, Mchildren, Mcoordinates, Mparent>>

\* MparameterSpace holds a Grid with one Node for every element of nodes
Filled(nodes) ==
  LET n == Len(nodes)
  IN  /\ nComp' = n
      /\ kind' = [c \in 0 .. n |-> IF c = Root THEN "Composite" ELSE "Leaf"]
      /\ Mchildren' = [c \in 0 .. n |->
                         IF c = Root THEN [i \in 1 .. n |-> i] ELSE <<>>]
      /\ Mcoordinates' = [c \in 0 .. n |-> IF c = Root THEN <<>> ELSE nodes[c]]
      /\ Mparent' = [c \in 0 .. n |-> IF c = Root THEN Undef ELSE Root]

\* new StandardParameter(...) / new DimensionlessParameter(...)
NewParameter ==
  /\ param' \in AllParameters
  /\ tlast' = [name |-> "Parameter", st |-> "ok"]
  /\ UNCHANGED <<BuildFrame, Space, Mparameters>>

\* GlobalAlgorithm::addParameter(param)
AddParameter ==
  /\ param.cls # "none"
  /\ Len(Mparameters) < MaxDim
  /\ LET st == OPTIMIZE_assert(isValid(param))
     IN  /\ tlast' = [name |-> "addParameter", st |-> st]
         /\ Mparameters' = IF st = "ok" THEN Append(Mparameters, param)
                           ELSE Mparameters
  /\ UNCHANGED <<BuildFrame, Space, param>>

\* the parameter vectors a caller can put together from what it holds
Vectors ==
  { v \in {<<param>>, Append(Mparameters, param), <<param>> \o Mparameters} :
      Len(v) <= MaxDim }

\* GridSearch(builder, parameters): the GlobalAlgorithm constructor asserts
\* every parameter; where it throws, the algorithm in use stays the old one
NewGridSearch ==
  /\ param.cls # "none"
  /\ \E v \in Vectors :
       LET st == OPTIMIZE_assert(\A i \in 1 .. Len(v) : isValid(v[i]))
       IN  /\ tlast' = [name |-> "GridSearch", st |-> st]
           /\ IF st = "ok"
              THEN Mparameters' = v /\ Filled(<<>>)
              ELSE UNCHANGED <<Mparameters, Space>>
  /\ UNCHANGED <<BuildFrame, param>>

\* GridSearch::constructParameterSpace
ConstructParameterSpace ==
  /\ IF OPTIMIZE_assert(Len(Mparameters) # 0) # "ok"
     THEN /\ tlast' = [name |-> "constructParameterSpace", st |-> "assert"]
          /\ UNCHANGED Space
     ELSE LET b == StandardParameterSpaceBuilder_buildGrid(Mparameters)
          IN  /\ tlast' = [name |-> "constructParameterSpace", st |-> b.st]
              /\ Filled(b.nodes)
  /\ UNCHANGED <<BuildFrame, param, Mparameters>>

\* builder.buildGrid(v) on a builder whose Grid is still empty
BuildGrid(v) ==
  /\ param.cls # "none"
  /\ v \in Vectors
  /\ Mchildren[Root] = <<>>
  /\ LET b == StandardParameterSpaceBuilder_buildGrid(v)
     IN  /\ tlast' = [name |-> "buildGrid", st |-> b.st, parameters |-> v]
         /\ Filled(b.nodes)
  /\ UNCHANGED <<BuildFrame, param, Mparameters>>

NextBuild ==
  \/ NewParameter
  \/ AddParameter
  \/ NewGridSearch
  \/ ConstructParameterSpace
  \/ \E v \in Vectors : BuildGrid(v)

SpecBuild == InitBuild /\ [][NextBuild]_vars

(* --------------------- Grid: add, remove, accept ----------------------- *)
\* the components that were made and not deleted, and the Grids among them
Alive == Live \ deleted
Grids == {g \in Alive : kind[g] = "Composite"}

\* std::find(children.begin(), children.end(), c): the first position that
\* holds c, Len + 1 for end()
find(children, c) ==
  IF \E i \in 1 .. Len(children) : children[i] = c
  THEN CHOOSE i \in 1 .. Len(children) :
         children[i] = c /\ \A j \in 1 .. i - 1 : children[j] # c
  ELSE Len(children) + 1
\* children.erase(iter)
erase(children, iter) ==
  [i \in 1 .. Len(children) - 1 |->
     IF i < iter THEN children[i] ELSE children[i + 1]]

RECURSIVE Links(_)
Links(n) == IF n < 0 THEN 0 ELSE Len(Mchildren[n]) + Links(n - 1)

\* new Grid / new Node for every component, nothing added to anything
InitTree ==
  /\ \E n \in 1 .. MaxTree :
       /\ nComp = n
       /\ kind \in { k \in [0 .. n -> {"Leaf", "Composite"}] :
                       k[Root] = "Composite" }
       /\ Mchildren = [c \in 0 .. n |-> <<>>]
       /\ Mparent = [c \in 0 .. n |-> Undef]
  /\ Mcoordinates = <<>>
  /\ deleted = {}
  /\ visited = <<>>
  /\ tlast = [name |-> "composite", st |-> "ok"]
  /\ it = NewStrategy("NullIter", "PostOrder")
  /\ last = it
  /\ reported = <<>>
  /\ trav = FALSE
  /\ op = "new"
  /\ arg = [prev |-> "new", pos |-> 0, n |-> 0, done |-> FALSE]
  /\ ret = 0
  /\ lastop = "new"
  /\ NoPool
  /\ NoCopy
  /\ NoBuild

\* what the operations on the composite leave alone
TreeFrame ==
  <<nComp, kind, it, travvars, copyvars, buildvars, Mcoordinates, pcMain, MnumThreads,
    Mactive, Mqueue, MnumPopped, num_tasks, wk, MresultData, submitted, called>>

\* a Grid that appends without looking for the component first
GridAdd_noFind(g, c) ==
  /\ Mparent' = [Mparent EXCEPT ![c] = g]
  /\ Mchildren' = [Mchildren EXCEPT ![g] = Append(@, c)]
  /\ Mcomputed' = Mcomputed \ {g}

\* the body of Grid::add
GridAdd(g, c) ==
  IF find(Mchildren[g], c) = Len(Mchildren[g]) + 1
  THEN /\ Mparent' = [Mparent EXCEPT ![c] = g]
       /\ Mchildren' = [Mchildren EXCEPT ![g] = Append(@, c)]
       /\ Mcomputed' = Mcomputed \ {g}
  ELSE UNCHANGED <<Mparent, Mchildren, Mcomputed>>

\* g.add(c), for any Grid and any other component
Add(g, c) ==
  /\ tlast.st = "ok"
  /\ g \in Grids /\ c \in Alive /\ c # g
  /\ Links(nComp) < MaxLinks
  /\ GridAdd(g, c)
  /\ visited' = <<>>
  /\ UNCHANGED <<TreeFrame, deleted, tlast>>

\* delete c: ~Grid deletes every child in turn; gone are the components
\* already deleted, busy the Grids whose destructor is running.  Deleting
\* one of either is undefined.
RECURSIVE Delete(_, _, _)
RECURSIVE DeleteChildren(_, _, _, _)
DeleteChildren(children, i, r, busy) ==
  IF r.st # "ok" \/ i > Len(children) THEN r
  ELSE DeleteChildren(children, i + 1, Delete(children[i], r.gone, busy), busy)
Delete(c, gone, busy) ==
  IF c \in gone \cup busy THEN [st |-> "ub", gone |-> gone]
  ELSE LET r == DeleteChildren(Mchildren[c], 1, [st |-> "ok", gone |-> gone],
                               busy \cup {c})
       IN  [r EXCEPT !.gone = @ \cup {c}]

\* the body of Grid::remove: setParent(0); delete *iter; erase(iter)
GridRemove(g, c) ==
  LET iter == find(Mchildren[g], c)
      d == Delete(c, deleted, {})
  IN  IF iter # Len(Mchildren[g]) + 1
      THEN IF d.st = "ok"
           THEN /\ Mparent' = [Mparent EXCEPT ![c] = Undef]
                /\ deleted' = d.gone
                /\ Mchildren' = [x \in Live |->
                                   IF x \in d.gone THEN <<>>
                                   ELSE IF x = g THEN erase(Mchildren[g], iter)
                                   ELSE Mchildren[x]]
                /\ UNCHANGED tlast
           ELSE /\ UNCHANGED <<Mparent, Mchildren, deleted>>
                /\ tlast' = [tlast EXCEPT !.st = "ub"]
      ELSE /\ UNCHANGED <<Mparent, Mchildren, deleted>>
           /\ UNCHANGED tlast

\* g.remove(c)
Remove(g, c) ==
  /\ tlast.st = "ok"
  /\ g \in Grids /\ c \in Alive
  /\ GridRemove(g, c)
  /\ visited' = <<>>
  /\ UNCHANGED <<TreeFrame, Mcomputed>>

\* c->accept(v): a Grid hands v to every child in turn and then calls
\* v(this), a Node calls v(this).  Calling into a deleted component is
\* undefined, calling into a Grid that is in busy never returns.
RECURSIVE accept(_, _)
RECURSIVE acceptChildren(_, _, _, _)
acceptChildren(children, i, r, busy) ==
  IF r.st # "ok" \/ i > Len(children) THEN r
  ELSE LET a == accept(children[i], busy)
       IN  acceptChildren(children, i + 1,
                          [st |-> a.st, seq |-> r.seq \o a.seq], busy)
accept(c, busy) ==
  IF c \in deleted \cup busy THEN [st |-> "ub", seq |-> <<>>]
  ELSE IF kind[c] = "Leaf" THEN [st |-> "ok", seq |-> <<c>>]
  ELSE LET r == acceptChildren(Mchildren[c], 1, [st |-> "ok", seq |-> <<>>],
                               busy \cup {c})
       IN  IF r.st = "ok" THEN [r EXCEPT !.seq = Append(@, c)] ELSE r

\* c.accept(visitor), the visitor recording what it is called on
Accept(c) ==
  /\ tlast.st = "ok"
  /\ c \in Alive
  /\ LET a == accept(c, {})
     IN  /\ visited' = a.seq
         /\ tlast' = [tlast EXCEPT !.st = a.st]
  /\ UNCHANGED <<TreeFrame, Mchildren, Mparent, Mcomputed, deleted>>

\* c.setComputed(): a Node sets its flag; a Grid asks its children in turn
\* until one is not computed and then sets its flag all the same
SetComputed(c) ==
  /\ tlast.st = "ok"
  /\ c \in Alive
  /\ LET children == Mchildren[c]
         stop == IF \E i \in 1 .. Len(children) : children[i] \notin Mcomputed
                 THEN CHOOSE i \in 1 .. Len(children) :
                        /\ children[i] \notin Mcomputed
                        /\ \A j \in 1 .. i - 1 : children[j] \in Mcomputed
                 ELSE Len(children)
         asked == {children[i] : i \in 1 .. stop}
     IN  IF asked \cap deleted = {}
         THEN /\ Mcomputed' = Mcomputed \cup {c}
              /\ UNCHANGED tlast
         ELSE /\ UNCHANGED Mcomputed
              /\ tlast' = [tlast EXCEPT !.st = "ub"]
  /\ visited' = <<>>
  /\ UNCHANGED <<TreeFrame, Mchildren, Mparent, deleted>>

NextTree ==
  \/ \E g \in Live, c \in Live : Add(g, c)
  \/ \E g \in Live, c \in Live : Remove(g, c)
  \/ \E c \in Live : Accept(c)
  \/ \E c \in Live : SetComputed(c)

SpecTree == InitTree /\ [][NextTree]_vars

(* ------------------- calls through GridComponent ----------------------- *)
\* the virtual accessors GridComponent implements with OPTIMIZE_illegal
Methods == {"getCoordinates", "getResultData", "setResultData",
            "add", "remove", "begin", "end", "rbegin", "rend"}

\* a Grid that answers getCoordinates itself
Overrides_gridCoordinates(k) ==
  IF k = "Composite"
  THEN {"add", "remove", "begin", "end", "rbegin", "rend", "getCoordinates"}
  ELSE {"getCoordinates", "getResultData", "setResultData"}

\* the accessors class Grid and class Node redefine
Overrides(k) ==
  IF k = "Composite" THEN {"add", "remove", "begin", "end", "rbegin", "rend"}
  ELSE {"getCoordinates", "getResultData", "setResultData"}

\* the result data a visitor stores
Data == {1}

\* OPTIMIZE_illegal: the call is left by an exception, nothing is returned
OPTIMIZE_illegal == "illegal"

\* what the accessor of the class of g returns
Returned(g, m) ==
  CASE m \in {"begin", "rbegin"} -> <<g, 1>>
    [] m \in {"end", "rend"} -> <<g, Len(Mchildren[g]) + 1>>
    [] m = "getCoordinates" -> Mcoordinates[g]
    [] m = "getResultData" -> <<MresultData[g]>>
    [] OTHER -> <<>>

\* new Grid / new Node(coordinates) for every component
InitCall ==
  /\ \E n \in 1 .. MaxCalled :
       /\ nComp = n
       /\ kind \in { k \in [0 .. n -> {"Leaf", "Composite"}] :
                       k[Root] = "Composite" }
       /\ Mchildren = [c \in 0 .. n |-> <<>>]
       /\ Mparent = [c \in 0 .. n |-> Undef]
       /\ Mcoordinates = [c \in 0 .. n |-> IF kind[c] = "Leaf" THEN <<c>> ELSE <<>>]
  /\ deleted = {}
  /\ visited = <<>>
  /\ tlast = [name |-> "composite", st |-> "ok"]
  /\ it = NewStrategy("NullIter", "PostOrder")
  /\ last = it
  /\ reported = <<>>
  /\ trav = FALSE
  /\ op = "new"
  /\ arg = [prev |-> "new", pos |-> 0, n |-> 0, done |-> FALSE]
  /\ ret = 0
  /\ lastop = "new"
  /\ NoPool
  /\ NoCopy
  /\ NoBuild

CallFrame ==
  <<nComp, kind, it, travvars, copyvars, buildvars, Mcoordinates, pcMain, MnumThreads,
    Mactive, Mqueue, MnumPopped, num_tasks, wk, submitted, called>>

\* g->m(...) through a GridComponent pointer: the virtual call runs the
\* function of the class of g, or the one of GridComponent if that class
\* does not redefine m.  c is the argument of add and remove, data the one
\* of setResultData.
Call(g, m, c, data) ==
  /\ tlast.st = "ok"
  /\ g \in Alive /\ c \in Alive
  /\ m \notin {"add", "remove"} => c = g
  /\ IF m \notin Overrides(kind[g])
     THEN /\ tlast' = [name |-> m, on |-> g, st |-> OPTIMIZE_illegal]
          /\ UNCHANGED <<Mparent, Mchildren, Mcomputed, deleted, MresultData>>
     ELSE CASE m = "add" ->
                 /\ c # g
                 /\ Links(nComp) < MaxLinks
                 /\ GridAdd(g, c)
                 /\ tlast' = [name |-> m, st |-> "ok"]
                 /\ UNCHANGED <<deleted, MresultData>>
            [] m = "remove" ->
                 /\ GridRemove(g, c)
                 /\ UNCHANGED <<Mcomputed, MresultData>>
            [] m = "setResultData" ->
                 /\ MresultData' = [MresultData EXCEPT ![g] = data]
                 /\ tlast' = [name |-> m, st |-> "ok"]
                 /\ UNCHANGED <<Mparent, Mchildren, Mcomputed, deleted>>
            [] OTHER ->
                 /\ tlast' = [name |-> m, st |-> "ok", val |-> Returned(g, m)]
                 /\ UNCHANGED <<Mparent, Mchildren, Mcomputed, deleted,
                                MresultData>>
  /\ visited' = <<>>
  /\ UNCHANGED CallFrame

NextCall ==
  \E g \in Live, m \in Methods, c \in Live, data \in Data : Call(g, m, c, data)

SpecCall == InitCall /\ [][NextCall]_vars

(* ------------------------ creating iterators --------------------------- *)
\* last = c.createIterator(k, mode), for any component and any kind
CreateLast ==
  /\ lastop = "new"
  /\ \E c \in Live, k \in IterTypes \cup OtherKinds, mode \in IterModes :
       /\ last' = createIterator(c, k, mode)
       /\ lastop' = k
  /\ UNCHANGED <<Tree, copyvars, compvars, buildvars, it, reported, trav, op, arg, ret, poolvars>>

SpecCreate == Init /\ [][CreateLast]_vars

(* ------------------------ copies of iterators -------------------------- *)
\* the Iterator values of the run: x is made by createIterator, y from x
Names == {"x", "y"}
Made == DOMAIN strat
NewId(h) == CHOOSE i \in 1 .. Cardinality(DOMAIN h) + 1 : i \notin DOMAIN h

\* the strategy of v with the state stack its memento holds
Load(v) == [strat[v] EXCEPT !.MstateStack = heap[mem[v]]]

\* a copy that hands out the memento of the original instead of a new one
IterationMemento_share(h, m) == [heap |-> h, id |-> m]

\* IterationMemento copy constructor behind clone(): a new memento whose
\* stack holds a clone of every state of the stack of m
IterationMemento_clone(h, m) ==
  LET n == NewId(h) IN [heap |-> (n :> h[m]) @@ h, id |-> n]

\* the mementos some Iterator value still owns
Owned(h, mm) == [i \in {mm[v] : v \in DOMAIN mm} |-> h[i]]

InitCopy ==
  /\ \E n \in 0 .. MaxComp : \E p \in ParentVecs(n) : \E k \in KindVecs(n, p) :
       /\ nComp = n
       /\ kind = k
       /\ Mchildren = [c \in 0 .. n |-> ChildSeq(p, n, c, 1)]
  /\ \E type \in IterTypes, mode \in IterModes :
       /\ it = createIterator(Root, type, mode)
       /\ last = it
       /\ strat = [v \in {"x"} |-> it]
  /\ mem = [v \in {"x"} |-> 1]
  /\ heap = [i \in {1} |-> <<>>]
  /\ cop = [name |-> "new", who |-> "x"]
  /\ reported = <<>>
  /\ trav = FALSE
  /\ op = "new"
  /\ arg = [prev |-> "new", pos |-> 0, n |-> 0, done |-> FALSE]
  /\ ret = 0
  /\ lastop = "new"
  /\ NoPool
  /\ NoComp
  /\ NoBuild

\* Iterator y(x): the strategy copy constructor copies Mcomponent and MisDone
\* and takes MiterMemento from rhs.MiterMemento->clone()
CopyConstruct ==
  /\ "y" \notin Made
  /\ strat["x"].st = "ok"
  /\ LET c == IterationMemento_clone(heap, mem["x"])
     IN  /\ heap' = c.heap
         /\ mem' = ("y" :> c.id) @@ mem
  /\ strat' = ("y" :> strat["x"]) @@ strat
  /\ cop' = [name |-> "copy", who |-> "y"]
  /\ UNCHANGED <<Tree, it, travvars, poolvars, compvars, buildvars>>

\* dst = src: the strategy of dst is replaced by a clone of the strategy of
\* src, the one dst held is released
Assign(dst, src) ==
  /\ dst \in Made /\ src \in Made /\ dst # src
  /\ strat[dst].st = "ok" /\ strat[src].st = "ok"
  /\ LET c == IterationMemento_clone(heap, mem[src])
         mm == [mem EXCEPT ![dst] = c.id]
     IN  /\ mem' = mm
         /\ heap' = Owned(c.heap, mm)
  /\ strat' = [strat EXCEPT ![dst] = strat[src]]
  /\ cop' = [name |-> "assign", who |-> dst]
  /\ UNCHANGED <<Tree, it, travvars, poolvars, compvars, buildvars>>

\* what a call on v that returns r leaves in the strategy and in its memento
Store(v, r) ==
  /\ strat' = [strat EXCEPT ![v] = [r EXCEPT !.MstateStack = <<>>]]
  /\ heap' = [heap EXCEPT ![mem[v]] = r.MstateStack]
  /\ UNCHANGED mem

\* v.first()
FirstOf(v) ==
  /\ v \in Made
  /\ strat[v].st = "ok"
  /\ \E r \in Resolve(first(Load(v))) : Store(v, r)
  /\ cop' = [name |-> "first", who |-> v]
  /\ UNCHANGED <<Tree, it, travvars, poolvars, compvars, buildvars>>

\* v.next(), positioned and not done
NextOf(v) ==
  /\ v \in Made
  /\ strat[v].st = "ok"
  /\ ~empty(heap[mem[v]])
  /\ Len(heap[mem[v]]) < MaxStack
  /\ ~isDone(Load(v))
  /\ \E r \in Resolve(next(Load(v))) : Store(v, r)
  /\ cop' = [name |-> "next", who |-> v]
  /\ UNCHANGED <<Tree, it, travvars, poolvars, compvars, buildvars>>

NextCopy ==
  \/ CopyConstruct
  \/ \E dst \in Names, src \in Names : Assign(dst, src)
  \/ \E v \in Names : FirstOf(v)
  \/ \E v \in Names : NextOf(v)

SpecCopy == InitCopy /\ [][NextCopy]_vars

\* IterationMemento::operator=: if (this != &rhs) a clone of every state of
\* rhs is push_back'ed onto MstateStack, which is not cleared first
IterationMemento_assign(stack, rhs) == stack \o rhs

\* CompositeIterator::operator=: if (this != &rhs) { clone(); } return *this;
\* the clone is dropped and no member of *this is written
CompositeIterator_assign(strategy, rhs) == strategy

\* *dst.MiterMemento = *src.MiterMemento, dst and src two objects
AssignMemento(dst, src) ==
  /\ dst \in Made /\ src \in Made /\ dst # src
  /\ strat[dst].st = "ok" /\ strat[src].st = "ok"
  /\ Len(heap[mem[dst]]) + Len(heap[mem[src]]) <= MaxStack
  /\ heap' = [heap EXCEPT ![mem[dst]] = IterationMemento_assign(@, heap[mem[src]])]
  /\ cop' = [name |-> "assignMemento", who |-> dst, from |-> src,
             held |-> ~empty(heap[mem[dst]])]
  /\ UNCHANGED <<Tree, it, travvars, poolvars, compvars, buildvars, strat, mem>>

\* the strategy of dst = the strategy of src, through CompositeIterator&
AssignStrategy(dst, src) ==
  /\ dst \in Made /\ src \in Made /\ dst # src
  /\ strat[dst].st = "ok" /\ strat[src].st = "ok"
  /\ strat' = [strat EXCEPT ![dst] = CompositeIterator_assign(@, strat[src])]
  /\ cop' = [name |-> "assignStrategy", who |-> dst, from |-> src,
             held |-> ~empty(heap[mem[dst]])]
  /\ UNCHANGED <<Tree, it, travvars, poolvars, compvars, buildvars, heap, mem>>

NextAssign ==
  \/ CopyConstruct
  \/ \E v \in Names : FirstOf(v)
  \/ \E v \in Names : NextOf(v)
  \/ \E dst \in Names, src \in Names : AssignMemento(dst, src)
  \/ \E dst \in Names, src \in Names : AssignStrategy(dst, src)

SpecAssign == InitCopy /\ [][NextAssign]_vars

(* ------------------------------ claims --------------------------------- *)
\* C1: for every non-empty tree a full forward-all post-order traversal
\* visits every Node exactly once and every Grid exactly once, each Grid only
\* after all of its descendants (the root, whose children first() pushes, is
\* not asked for).
C1_PostOrderVisitsAllOnce ==
  (trav /\ it.type = "ForwardIter" /\ it.mode = "PostOrder" /\ nComp >= 1) =>
    /\ WellBehaved
    /\ Range(reported) \subseteq Live
    /\ NoDup(reported)
    /\ \A i \in 1 .. Len(reported) :
         reported[i] \in Live => Descendants(reported[i]) \subseteq Before(reported, i)
    /\ isDone(it) => Range(reported) = Live \ {Root}

\* C2: with a worker pool, GridSearch::execute does not return until the
\* visitor call for every enqueued leaf has completed.
C2_ExecuteReturnsAfterAllVisits ==
  (pcMain = "returned" /\ MnumThreads > 0) =>
    \A i \in 1 .. Len(submitted) : called[submitted[i]] >= 1

\* C3: once all leaves are submitted and the pool's completed-tasks count
\* equals the number submitted, every leaf is computed and its result data is
\* the sum of its two coordinates.
C3_CompletedCountMeansComputed ==
  ( /\ pcMain \in {"spin", "join", "returned"}
    /\ MnumThreads > 0
    /\ getCompletedTasksCount = num_tasks ) =>
    \A i \in 1 .. Len(submitted) :
      /\ submitted[i] \in Mcomputed
      /\ MresultData[submitted[i]] = Sum(submitted[i])

\* C4: for every tree a forward-leaves-only traversal from first() until
\* isDone() surfaces every Node of the tree exactly once and no Grid.
C4_LeavesOnlyWalksWholeTree ==
  (trav /\ it.type = "ForwardNodeIter") =>
    /\ WellBehaved
    /\ \A i \in 1 .. Len(reported) : reported[i] \in Live /\ IsLeaf(reported[i])
    /\ NoDup(reported)
    /\ isDone(it) => Range(reported) = { c \in Live : IsLeaf(c) }

\* C5: after first() and after every next(), for every kind and order, either
\* the frame stack is empty and isDone() is true, or the stack holds a frame
\* whose position is not its end marker and refers to a component of the tree.
C5_EmptyOrWellDefined ==
  (op \in {"first", "next"}) =>
    /\ WellBehaved
    /\ \/ empty(it.MstateStack) /\ isDone(it)
       \/ /\ ~empty(it.MstateStack)
          /\ ~isDone(it)
          /\ Derefable(it.MstateStack)
          /\ currentItem(it) \in Live

\* C6: for all trees the sequence a reverse-all traversal produces from
\* first() to isDone() is the exact reverse of the sequence the forward-all
\* traversal of the same order produces.
C6_ReverseIsReverseOfForward ==
  (trav /\ it.type = "ReverseIter") =>
    /\ WellBehaved
    /\ isDone(it) =>
         LET f == Run("ForwardIter", it.mode)
         IN  f.st = "ok" /\ reported = Reverse(f.seq)

\* C7: in a pre-order forward-all traversal each Grid below the root is
\* reported exactly once, and strictly before any component of its subtree.
C7_PreOrderGridBeforeSubtree ==
  (trav /\ it.type = "ForwardIter" /\ it.mode = "PreOrder") =>
    /\ WellBehaved
    /\ \A i \in 1 .. Len(reported) :
         (reported[i] \in Live /\ IsGrid(reported[i])) =>
           /\ \A j \in 1 .. Len(reported) : reported[j] = reported[i] => j = i
           /\ Descendants(reported[i]) \cap Before(reported, i) = {}
    /\ \A i \in 1 .. Len(reported) :
         reported[i] \in Live =>
           \A g \in Live : (g # Root /\ reported[i] \in Descendants(g)) =>
                             g \in Before(reported, i)
    /\ isDone(it) => \A g \in Live : (g # Root /\ IsGrid(g)) => g \in Range(reported)

\* C8: for every (kind, order), distance(first, last) with first positioned by
\* first() and last positioned by back() is the number of qualifying
\* components minus one.
C8_DistanceFirstToBack ==
  LET q == Qualifying(it.type, it.mode)
  IN  Len(q) >= 1 =>
        /\ lastop = "back" => last.st = "ok"
        /\ (op = "distance" /\ arg.prev = "first") =>
             WellBehaved /\ ret = Len(q) - 1

\* C9: after back() on a traversal with at least one qualifying component the
\* iterator is not done and currentItem() is the last qualifying item, the
\* last component a full traversal of the same kind and order reports.
C9_BackIsLastItem ==
  LET q == Qualifying(it.type, it.mode)
  IN  (op = "back" /\ Len(q) >= 1) =>
        /\ WellBehaved
        /\ ~isDone(it)
        /\ Derefable(it.MstateStack)
        /\ currentItem(it) = q[Len(q)]

\* C10: advance(it, n) leaves it.isDone() true for n at or above the number
\* of remaining qualifying components, and otherwise leaves it at the
\* (initial position + n)-th qualifying component.
C10_AdvanceByN ==
  LET q == Qualifying(it.type, it.mode)
      p == IF arg.done THEN Len(q) + 1 ELSE arg.pos
      remaining == Len(q) - p + 1
  IN  ( /\ op = "advance"
        /\ arg.pos <= Len(q)
        /\ reported = SubSeq(q, 1, arg.pos)
        /\ arg.done => arg.pos = Len(q)
        /\ ~arg.done => arg.pos >= 1 ) =>
        /\ WellBehaved
        /\ IF arg.n >= remaining THEN isDone(it)
           ELSE /\ ~isDone(it)
                /\ Derefable(it.MstateStack)
                /\ currentItem(it) = q[p + arg.n]

\* C11: when last lies earlier in the iteration order than the position of
\* first, distance(first, last) rewinds first to first() and returns the
\* number of steps from the start to last (here last stands on the first
\* qualifying component, so the count is 0 and first ends on it too).
C11_DistanceRewinds ==
  [][LET q == Qualifying(it.type, it.mode)
     IN  ( /\ op' = "distance"
           /\ lastop = "first"
           /\ op \in {"first", "next"}
           /\ ~isDone(it)
           /\ Len(reported) >= 2
           /\ Len(reported) <= Len(q)
           /\ reported = SubSeq(q, 1, Len(reported)) ) =>
           /\ it'.st = "ok"
           /\ ret' = 0
           /\ ~isDone(it')
           /\ Derefable(it'.MstateStack)
           /\ currentItem(it') = q[1]]_vars

\* C12: first() is idempotent: a second first() right after a first() leaves
\* the iterator exactly as the first call left it (same starting component,
\* same frame stack, hence the same subsequent sequence), whatever state the
\* iterator was in before.
C12_FirstIdempotent ==
  [][(op = "first" /\ op' = "first") => (it' = it /\ reported' = reported)]_vars

C14_EqualIffSamePosition ==
  [][( /\ op' = "compare"
       /\ Derefable(it.MstateStack)
       /\ Derefable(last.MstateStack) ) =>
       /\ it'.st = "ok"
       /\ ret' = 1 <=> currentItem(it) = currentItem(last)]_vars

\* C15: createIterator called with a kind the factory does not recognize
\* does not fail: it returns an iterator whose isDone() is true right away.
C15_UnknownKindIsDone ==
  lastop \in OtherKinds => (last.st = "ok" /\ Iterator_isDone(last))

\* an unrecognized kind was asked of a Grid that has children
C15_Witness ==
  /\ lastop = "Unknown"
  /\ Mchildren[Root] # <<>>
  /\ last.type = "NullIter"
  /\ Iterator_isDone(last)

\* the grid of the tests: ranges [0, 1] step 0.5 and [-1, 1] step 1
Scenario ==
  tlast = [name |-> "buildGrid",
           parameters |-> <<[start |-> 0, end |-> 2, delta |-> 1],
                            [start |-> -2, end |-> 2, delta |-> 2]>>]
\* a finished forward-leaves-only post-order run over that grid
ScenarioRun == Scenario /\ trav /\ it.mode = "PostOrder" /\ isDone(it)
Coords(seq) == [i \in 1 .. Len(seq) |-> Mcoordinates[seq[i]]]

\* C16: on the grid built from [0, 1] step 0.5 and [-1, 1] step 1 the
\* forward-leaves-only post-order traversal from first() reports the nine
\* pairs in the order (0,-1),(0,0),(0,1),(0.5,-1),(0.5,0),(0.5,1),(1,-1),
\* (1,0),(1,1), the second coordinate running fastest.
C16_RowMajor ==
  ScenarioRun =>
    /\ WellBehaved
    /\ Range(reported) \subseteq Live
    /\ Coords(reported) = << <<0, -2>>, <<0, 0>>, <<0, 2>>,
                             <<1, -2>>, <<1, 0>>, <<1, 2>>,
                             <<2, -2>>, <<2, 0>>, <<2, 2>> >>

\* C16 (amended): the traversal reports the nine pairs in the order
\* (0,-1),(0.5,-1),(1,-1),(0,0),(0.5,0),(1,0),(0,1),(0.5,1),(1,1), the first
\* coordinate running fastest.
C16_FirstCoordinateFastest ==
  ScenarioRun =>
    /\ WellBehaved
    /\ Range(reported) \subseteq Live
    /\ Coords(reported) = << <<0, -2>>, <<1, -2>>, <<2, -2>>,
                             <<0, 0>>, <<1, 0>>, <<2, 0>>,
                             <<0, 2>>, <<1, 2>>, <<2, 2>> >>

\* the run over the nine leaves has finished
C16_Witness == ScenarioRun /\ Len(reported) = 9 /\ NoDup(reported)

\* the components below and including those of S, by the children lists
RECURSIVE ReachFrom(_)
ReachFrom(S) ==
  LET T == S \cup UNION { Range(Mchildren[x]) : x \in S }
  IN  IF T = S THEN S ELSE ReachFrom(T)
\* where component x stands in the sequence v
PosIn(v, x) == CHOOSE i \in 1 .. Len(v) : v[i] = x
\* v calls on every component below and including c once, the children of
\* every Grid in insertion order and the Grid after them
VisitsSubtreeOnce(c, v) ==
  /\ NoDup(v)
  /\ Range(v) = ReachFrom({c})
  /\ \A h \in Range(v) : \A i \in 1 .. Len(Mchildren[h]) :
       /\ PosIn(v, Mchildren[h][i]) < PosIn(v, h)
       /\ \A j \in 1 .. i - 1 :
            PosIn(v, Mchildren[h][j]) < PosIn(v, Mchildren[h][i])

\* C17: accept(visitor) on a Grid calls the visitor on every component of
\* its subtree exactly once, children in insertion order and the Grid itself
\* after all its children; accept on a Node calls the visitor on that Node
\* only.
C17_AcceptVisitsSubtreeOnce ==
  [][\A c \in Live : Accept(c) =>
       /\ tlast'.st = "ok"
       /\ IF kind[c] = "Leaf" THEN visited' = <<c>>
          ELSE VisitsSubtreeOnce(c, visited')]_vars

\* C18: add(component) changes nothing (children, parent links, computed
\* flags) if the Grid already holds the component; otherwise it appends the
\* component as the last child, makes the Grid its parent and clears the
\* computed flag of the Grid.
C18_AddAppendsOnce ==
  [][\A g \in Live, c \in Live : Add(g, c) =>
       IF c \in Range(Mchildren[g])
       THEN Mchildren' = Mchildren /\ Mparent' = Mparent /\ Mcomputed' = Mcomputed
       ELSE /\ Mchildren' = [Mchildren EXCEPT ![g] = Append(@, c)]
            /\ Mparent' = [Mparent EXCEPT ![c] = g]
            /\ Mcomputed' = Mcomputed \ {g}]_vars

\* a Grid holds two children, the second added after the first was computed
C18_Witness ==
  \E g \in Grids :
    /\ Len(Mchildren[g]) = 2
    /\ Mparent[Mchildren[g][2]] = g
    /\ Mchildren[g][1] \in Mcomputed
    /\ g \notin Mcomputed

\* C19: remove(component) changes nothing if the Grid does not hold the
\* component; otherwise the parent link of the component is cleared, its
\* subtree is deleted and it leaves the children list, the other children
\* keeping their order.
C19_RemoveDeletesSubtree ==
  [][\A g \in Live, c \in Live : Remove(g, c) =>
       IF c \notin Range(Mchildren[g])
       THEN Mchildren' = Mchildren /\ Mparent' = Mparent /\ deleted' = deleted
       ELSE /\ tlast'.st = "ok"
            /\ Mparent'[c] = Undef
            /\ ReachFrom({c}) \subseteq deleted'
            /\ Mchildren'[g] = SelectSeq(Mchildren[g], LAMBDA x : x # c)]_vars

\* C20: whatever add and remove calls were made, no component is among the
\* children of more than one Grid.
C20_AtMostOneParent ==
  \A c \in Alive :
    Cardinality({g \in Grids : c \in Range(Mchildren[g])}) <= 1

\* C21: in every state add, remove and setComputed can reach, a Grid whose
\* isComputed() is true has only computed children.
C21_GridComputedMeansChildren ==
  tlast.st = "ok" =>
    \A g \in Grids : g \in Mcomputed =>
      \A i \in 1 .. Len(Mchildren[g]) : Mchildren[g][i] \in Mcomputed

\* the accessors that mean nothing for a component of kind k
Meaningless(k) ==
  IF k = "Composite" THEN {"getCoordinates", "getResultData"}
  ELSE {"add", "remove", "begin", "end", "rbegin", "rend"}

\* C22: an accessor that is meaningless for the variant of the component
\* (coordinates or result data on a Grid; add, remove, begin, end, rbegin,
\* rend on a Node) ends in the illegal-operation fault, returns no value and
\* leaves the component and every other component as they were.
C22_MeaninglessAccessorFaults ==
  [][\A g \in Live : \A m \in Meaningless(kind[g]) : \A c \in Live, data \in Data :
       Call(g, m, c, data) =>
         /\ tlast' = [name |-> m, on |-> g, st |-> "illegal"]
         /\ Mchildren' = Mchildren
         /\ Mparent' = Mparent
         /\ Mcomputed' = Mcomputed
         /\ MresultData' = MresultData
         /\ deleted' = deleted]_vars

\* add was called on a Node that is the child of a Grid
C22_Witness ==
  /\ tlast.name = "add"
  /\ tlast.st = "illegal"
  /\ kind[tlast.on] = "Leaf"
  /\ Mparent[tlast.on] # Undef
  /\ Mchildren[tlast.on] = <<>>

\* the configurations the claim calls invalid: a range with start == end, a
\* sample count at or below the minimum of two
InvalidConfiguration(p) ==
  IF p.cls = "Standard" THEN p.start = p.end ELSE p.samples <= 2

\* C23: an invalid parameter configuration is detected by an assertion when
\* the parameter is constructed, and no Node is ever added for it.
C23_RejectedAtConstruction ==
  /\ (tlast.name = "Parameter" /\ InvalidConfiguration(param)) => tlast.st = "assert"
  /\ \A i \in 1 .. Len(Mparameters) : ~InvalidConfiguration(Mparameters[i])
  /\ (tlast.name = "buildGrid" /\ \E i \in 1 .. Len(tlast.parameters) :
                                      InvalidConfiguration(tlast.parameters[i])) =>
       (tlast.st = "assert" /\ nComp = 0)

\* C23 (amended): the constructor of a parameter accepts an invalid
\* configuration; the assertion is made when the parameter is handed to an
\* algorithm (constructor, addParameter) and at the start of buildGrid, so no
\* algorithm ever holds an invalid parameter and no Node is added for one.
C23_RejectedBeforeNodes ==
  /\ tlast.name = "Parameter" => tlast.st = "ok"
  /\ (tlast.name = "addParameter" /\ InvalidConfiguration(param)) => tlast.st = "assert"
  /\ \A i \in 1 .. Len(Mparameters) : ~InvalidConfiguration(Mparameters[i])
  /\ (tlast.name = "buildGrid" /\ \E i \in 1 .. Len(tlast.parameters) :
                                      InvalidConfiguration(tlast.parameters[i])) =>
       (tlast.st = "assert" /\ nComp = 0)

\* buildGrid was handed a valid parameter and one with start == end and
\* left the Grid empty
C23_Witness ==
  /\ tlast.name = "buildGrid"
  /\ tlast.st = "assert"
  /\ Len(tlast.parameters) = 2
  /\ ~InvalidConfiguration(tlast.parameters[1])
  /\ InvalidConfiguration(tlast.parameters[2])
  /\ nComp = 0

\* C24: for every tree shape, every component GridSearch::execute passes to
\* addTask is a Node of the tree, never a Grid.
C24_OnlyLeavesEnqueued ==
  \A i \in 1 .. Len(submitted) :
    submitted[i] \in Live /\ IsLeaf(submitted[i])

\* C25: under every interleaving of addTask calls and worker pops the queue
\* holds the tasks added and not yet popped in the order they were added, a
\* pop takes the oldest of them off the queue, and the worker that popped it
\* is handed that task: none is lost and none is handed out twice.
C25_FifoExactlyOnce ==
  [][/\ Mqueue' = SubSeq(submitted', MnumPopped' + 1, Len(submitted'))
     /\ \A w \in DOMAIN wk :
          /\ (wk[w].pc = "lock" /\ wk'[w].pc = "read") =>
               /\ MnumPopped' = MnumPopped + 1
               /\ wk'[w].comp = submitted[MnumPopped']
               /\ \A v \in DOMAIN wk \ {w} : wk'[v] = wk[v]
          /\ (wk[w].pc = "read" /\ wk'[w].pc # "read") =>
               /\ wk'[w].pc = "visit"
               /\ wk'[w].comp = wk[w].comp]_vars

\* the number of visitor calls that have returned, on components 0 .. n
RECURSIVE Finished(_)
Finished(n) == IF n < 0 THEN 0 ELSE called[n] + Finished(n - 1)

\* C26: at every moment getCompletedTasksCount() is at most the number of
\* tasks whose visitor call has finished.
C26_CompletedCountIsCompleted ==
  MnumThreads > 0 => getCompletedTasksCount <= Finished(nComp)

\* C27: for every tree a composites-only traversal, forward or reverse, from
\* first() until isDone() surfaces every Grid below the root exactly once and
\* no Node.
C27_GridsOnlyWalksWholeTree ==
  (trav /\ it.type \in {"ForwardGridIter", "ReverseGridIter"}) =>
    /\ WellBehaved
    /\ \A i \in 1 .. Len(reported) : reported[i] \in Live /\ IsGrid(reported[i])
    /\ NoDup(reported)
    /\ isDone(it) => Range(reported) = { c \in Live \ {Root} : IsGrid(c) }

\* the number of tree levels between the root and component c
RECURSIVE Depth(_)
Depth(c) ==
  IF c = Root THEN 0
  ELSE 1 + Depth(CHOOSE p \in Live : \E i \in 1 .. Len(Mchildren[p]) : Mchildren[p][i] = c)

\* the iterator is positioned on a component by first() or next()
Positioned ==
  /\ op \in {"first", "next"}
  /\ it.st = "ok"
  /\ ~isDone(it)
  /\ Derefable(it.MstateStack)

\* C28: whenever an iterator is positioned on a component after first() or
\* next() and is not done, the frame stack of its memento is as deep as the
\* position of the current component in the tree.
C28_StackDepthIsPositionDepth ==
  Positioned => Len(it.MstateStack) = Depth(currentItem(it))

\* C29: a worker pool given worker count 0 starts as many workers as the
\* hardware concurrency reports, and in every case starts at least 1 worker.
C29_WorkersStarted ==
  tlast.name = "initialize" =>
    /\ (tlast.numThreads = 0 /\ tlast.hardware_concurrency > 0) =>
         Len(wk) = tlast.hardware_concurrency
    /\ Len(wk) >= 1
    /\ MnumThreads = Len(wk)

\* a pool constructed with count 0 where the hardware concurrency is not
\* known runs a task on its one worker
C29_Witness ==
  /\ tlast.name = "initialize"
  /\ tlast.numThreads = 0
  /\ tlast.hardware_concurrency = 0
  /\ Len(wk) = 1
  /\ wk[1].pc = "visit"

\* a pool constructed with count 0 on a machine of two hardware threads
C29_WitnessHardware ==
  /\ tlast.name = "initialize"
  /\ tlast.numThreads = 0
  /\ tlast.hardware_concurrency = 2
  /\ Len(wk) = 2

\* C30: advance(iter, n) with n equal to or greater than the number of
\* children in the parameter space grid leaves iter pointing to the last
\* element of its traversal.
C30_AdvancePastEndStaysOnLast ==
  LET q == Qualifying(it.type, it.mode)
  IN  (op = "advance" /\ arg.n >= Len(Mchildren[Root]) /\ q # <<>>) =>
        /\ it.st = "ok"
        /\ ~isDone(it)
        /\ Derefable(it.MstateStack)
        /\ currentItem(it) = q[Len(q)]

\* the frame next() would push from the position the iterator stands on
PushedNow == NextFrame(it.type, currentItem(it))
\* the stack right after that pushState
AfterPush == pushState(it.mode, it.MstateStack, PushedNow)

\* C31: for both mementos, immediately after pushState(s) the frame s is the
\* active one: the frame getCurrentIterator(), next() and
\* iterationStateIsEnd() use and the one popState() removes.
C31_PushedFrameIsActive ==
  (it.st = "ok" /\ Derefable(it.MstateStack)) =>
    /\ AfterPush[Len(AfterPush)] = PushedNow
    /\ iterationStateIsEnd(AfterPush) = isEnd(PushedNow)
    /\ mementoNext(AfterPush)[Len(AfterPush)] = stateNext(PushedNow)
    /\ popState(AfterPush) = it.MstateStack

\* the push-or-advance step of next() from the position the iterator stands
\* on pushes a frame
Pushes == Len(StepNext(it).MstateStack) = Len(it.MstateStack) + 1

\* C32: next() pushes a new frame exactly when the item referenced by the
\* active frame is a Grid with at least one child; for a Node or a childless
\* Grid it advances or pops, so no frame whose position already equals its
\* end marker is ever pushed.
C32_PushOnlyOntoChildren ==
  (it.st = "ok" /\ Derefable(it.MstateStack)) =>
    /\ Pushes <=> (IsGrid(currentItem(it)) /\ Mchildren[currentItem(it)] # <<>>)
    /\ Pushes => ~isEnd(PushedNow)

\* an assignment between two traversal objects was the last call, and its
\* target held frames
Assigned(name) ==
  /\ cop.name = name
  /\ cop.held

\* C33: after a memento or a strategy that already holds frames is assigned
\* from another one, its frame stack equals the stack of the source (the
\* frames it held are discarded) and its current item is the source's.
C33_AssignmentDeepClones ==
  (Assigned("assignMemento") \/ Assigned("assignStrategy")) =>
    /\ heap[mem[cop.who]] = heap[mem[cop.from]]
    /\ Derefable(heap[mem[cop.from]]) =>
         /\ Derefable(heap[mem[cop.who]])
         /\ currentItem(Load(cop.who)) = currentItem(Load(cop.from))

C33_MementoAssignment == Assigned("assignMemento") => C33_AssignmentDeepClones
C33_StrategyAssignment == Assigned("assignStrategy") => C33_AssignmentDeepClones

\* C34: a GridSearch constructed without an explicit thread count executes
\* the visitor through the worker pool; the visitor is applied serially on
\* the calling thread only by a GridSearch given a thread count.
C34_DefaultUsesPool ==
  /\ (MnumThreads = num_threads /\ \E c \in Live : called[c] > 0) => wk # <<>>
  /\ pcMain = "serial" => MnumThreads # num_threads

\* the number of levels of the tree below the root
Height ==
  LET d == { Depth(c) : c \in Live }
  IN  CHOOSE m \in d : \A x \in d : x <= m

\* C35: for every tree and every kind, direction and order, first() followed
\* by repeated next() reaches isDone() after finitely many calls of next(),
\* and the frame stack never grows beyond the depth of the tree.
C35_TraversalTerminates ==
  /\ [](Len(it.MstateStack) <= Height)
  /\ (op = "first") ~> (it.st = "ok" /\ isDone(it))

\* the i-th task added to the pool was popped and the visitor has been
\* invoked on it
Served(i) == MnumPopped >= i /\ called[submitted[i]] >= 1

\* C36: with at least one worker running and every visitor call terminating,
\* every task added to the pool is eventually popped and has the visitor
\* invoked on it.
C36_EveryTaskServed ==
  \A i \in 1 .. NumLeaves + 1 :
    (MnumThreads >= 1 /\ Len(submitted) >= i) ~> (Len(submitted) >= i /\ Served(i))

\* the queue half of C36: every task added is eventually popped
C36_EveryTaskPopped ==
  \A i \in 1 .. NumLeaves + 1 :
    (MnumThreads >= 1 /\ Len(submitted) >= i) ~> (MnumPopped >= i)

\* C37: destroying the pool after all submitted tasks have been popped
\* eventually terminates every worker thread, the ones blocked waiting on
\* the empty queue included, so that the destructor and execute return.
C37_DestructorReturns ==
  (pcMain = "join") ~>
    (pcMain = "returned" /\ \A w \in DOMAIN wk : wk[w].pc = "done")

\* the tree as execute leaves it: the visitor was applied to exactly the
\* leaves in Visited, once each, and every one holds the result v gives it
FinalState(Visited) ==
  /\ \A c \in Live : called[c] = IF c \in Visited THEN 1 ELSE 0
  /\ Mcomputed = Visited
  /\ \A c \in Live : MresultData[c] = IF c \in Visited THEN Sum(c) ELSE Undef

\* C38: for a visitor whose effect on a leaf depends only on that leaf,
\* execute leaves the tree in the same final state, every leaf visited
\* exactly once and holding its result, whether it runs serially or through
\* the pool with any number of workers.
C38_SerialAndPoolAgree ==
  pcMain = "returned" => FinalState({ c \in Live : IsLeaf(c) })

====
